---- MODULE Spec2Model ----
(***************************************************************************)
(* The manga PDF assembler (lib/pdf-generator.js): validateImageFile,      *)
(* preprocessProblematicImage, emergencyImageRecovery and createMangaPDF;  *)
(* the crawl loop of scrapeManga (puppeteer-scrape.js) and the two request *)
(* handlers of server.js, each under a specification of its own.           *)
(*                                                                         *)
(* File and folder names are sequences of one-character strings, file      *)
(* contents are byte sequences (0..255) and hexadecimal text is a sequence *)
(* of nibbles (0..15), so that the regular expressions, the numeric sort   *)
(* key and the header tests are computed the way the code computes them.   *)
(***************************************************************************)
EXTENDS Integers, Sequences, FiniteSets, TLC

VARIABLES
    fsys,              \* the manga folder: root listing and chapter listings
    pc,                \* position of createMangaPDF
    chapters,          \* sorted chapter folder names
    ci,                \* index of the chapter being processed
    images,            \* sorted image names of the current chapter
    ii,                \* index of the image being processed
    stats,             \* the statistics object
    doc,               \* the PDFDocument: created, pages, ended
    stream,            \* "none" | "open" | "finished"
    cur,               \* per-image locals: file content, err, preprocessResult
    calls,             \* calls made to the collaborators, in order
    outcome,           \* settlement of the promise
    vin,               \* validateImageFile: the file under test
    vout,              \* validateImageFile: the verdicts returned
    replay,            \* two runs in a row: what the first run met and counted
    crawl,             \* scrapeManga: the locals of the crawl loop
    server             \* the Express handlers: the request and its responses

vars == <<fsys, pc, chapters, ci, images, ii, stats, doc, stream, cur, calls,
          outcome, vin, vout, replay, crawl, server>>

----------------------------------------------------------------------------
(* Bounds of the model.                                                    *)

MaxFiles == 2
MaxHead == 3

----------------------------------------------------------------------------
(* Names.                                                                  *)

DigitValue ==
    ("0" :> 0) @@ ("1" :> 1) @@ ("2" :> 2) @@ ("3" :> 3) @@ ("4" :> 4) @@
    ("5" :> 5) @@ ("6" :> 6) @@ ("7" :> 7) @@ ("8" :> 8) @@ ("9" :> 9)

IsDigit(c) == c \in DOMAIN DigitValue

UpperCase ==
    <<"A","B","C","D","E","F","G","H","I","J","K","L","M",
      "N","O","P","Q","R","S","T","U","V","W","X","Y","Z">>

LowerCase ==
    <<"a","b","c","d","e","f","g","h","i","j","k","l","m",
      "n","o","p","q","r","s","t","u","v","w","x","y","z">>

\* the /i flag of the extension test
ToLower(c) ==
    IF \E k \in 1..26 : UpperCase[k] = c
    THEN LowerCase[CHOOSE k \in 1..26 : UpperCase[k] = c]
    ELSE c

LowerName(name) == [k \in 1..Len(name) |-> ToLower(name[k])]

\* String.prototype.endsWith
EndsWith(s, suf) ==
    /\ Len(suf) <= Len(s)
    /\ SubSeq(s, Len(s) - Len(suf) + 1, Len(s)) = suf

\* String.prototype.startsWith
StartsWith(s, pre) ==
    /\ Len(pre) <= Len(s)
    /\ SubSeq(s, 1, Len(pre)) = pre

\* String.prototype.includes
Includes(s, sub) ==
    \E k \in 1..(Len(s) - Len(sub) + 1) : SubSeq(s, k, k + Len(sub) - 1) = sub

\* a.match(/\d+/)?.[0] : position of the first digit, 0 when there is none
FirstDigitIndex(name) ==
    IF \E k \in 1..Len(name) : IsDigit(name[k])
    THEN CHOOSE k \in 1..Len(name) :
            /\ IsDigit(name[k])
            /\ \A j \in 1..(k - 1) : ~IsDigit(name[j])
    ELSE 0

\* parseInt of the digit run that starts at k
RECURSIVE ParseDigits(_, _, _)
ParseDigits(name, k, acc) ==
    IF k > Len(name) \/ ~IsDigit(name[k])
    THEN acc
    ELSE ParseDigits(name, k + 1, acc * 10 + DigitValue[name[k]])

\* parseInt(a.match(/\d+/)?.[0] || '0')
NumKey(name) ==
    LET k == FirstDigitIndex(name)
    IN  IF k = 0 THEN 0 ELSE ParseDigits(name, k, 0)

\* an insertion that lets a later name overtake an earlier one of the same key
InsertBeforeEqual(sorted, x) ==
    IF sorted = <<>>
    THEN <<x>>
    ELSE LET k == Cardinality({i \in 1..Len(sorted) : NumKey(sorted[i]) < NumKey(x)})
         IN  SubSeq(sorted, 1, k) \o <<x>> \o SubSeq(sorted, k + 1, Len(sorted))

\* Array.prototype.sort((a, b) => numA - numB): stable, ascending by key
RECURSIVE InsertByKey(_, _)
InsertByKey(sorted, x) ==
    IF sorted = <<>>
    THEN <<x>>
    ELSE LET last == sorted[Len(sorted)]
             front == SubSeq(sorted, 1, Len(sorted) - 1)
         IN  IF NumKey(last) <= NumKey(x)
             THEN Append(sorted, x)
             ELSE Append(InsertByKey(front, x), last)

RECURSIVE SortFrom(_, _, _)
SortFrom(seq, k, acc) ==
    IF k > Len(seq) THEN acc ELSE SortFrom(seq, k + 1, InsertByKey(acc, seq[k]))

\* the listing left in enumeration order
NoSort(seq) == seq

SortByNumber(seq) == SortFrom(seq, 1, <<>>)

ImageExtensions ==
    { <<".","j","p","g">>, <<".","j","p","e","g">>, <<".","p","n","g">>,
      <<".","g","i","f">>, <<".","w","e","b","p">> }

DotFixed == <<".","f","i","x","e","d">>
DotRecovered == <<".","r","e","c","o","v","e","r","e","d">>
DotConverted == <<".","c","o","n","v","e","r","t","e","d">>
DotFixedJpg == DotFixed \o <<".","j","p","g">>
DotRecoveredJpg == DotRecovered \o <<".","j","p","g">>

\* /\.(jpg|jpeg|png|gif|webp)$/i.test(file)
HasImageExtension(file) ==
    \E e \in ImageExtensions : EndsWith(LowerName(file), e)

\* the extension test alone, generated files included
IsImageByExtension(file) == HasImageExtension(file)

\* the filter of the chapter listing
IsInputImage(file) ==
    /\ HasImageExtension(file)
    /\ ~Includes(file, DotFixed)
    /\ ~Includes(file, DotRecovered)
    /\ ~Includes(file, DotConverted)

----------------------------------------------------------------------------
(* Files.  A file is [stat, read, size, off, bytes]: whether fs.statSync    *)
(* and fs.readFileSync succeed on it, its size, and its content, which is  *)
(* `bytes' placed at offset `off' and zero everywhere else.                *)

MinFileSize == 100

ErrStat == "ENOENT: no such file or directory"
ErrRead == "EACCES: permission denied"

\* the whole content: fs.readFileSync ignores the start and end options
Content(f) ==
    [k \in 1..f.size |->
        IF k > f.off /\ k <= f.off + Len(f.bytes) THEN f.bytes[k - f.off] ELSE 0]

\* Buffer.prototype.toString('hex'), as nibbles
ToHex(buf) ==
    [k \in 1..(2 * Len(buf)) |->
        IF k % 2 = 1 THEN buf[(k + 1) \div 2] \div 16 ELSE buf[k \div 2] % 16]

SigJPEG == <<15, 15, 13, 8, 15, 15>>
SigPNG == <<8, 9, 5, 0, 4, 14, 4, 7>>
SigGIF == <<4, 7, 4, 9, 4, 6>>
SigWEBP == <<5, 7, 4, 5, 4, 2, 5, 0>>

RecognizedHeader(hex) ==
    \/ StartsWith(hex, SigJPEG)
    \/ StartsWith(hex, SigPNG)
    \/ StartsWith(hex, SigGIF)
    \/ Includes(hex, SigWEBP)

ReasonEmpty == <<"Empty file (0 bytes)">>
ReasonTooSmall == <<"File too small (likely corrupted)">>
ReasonHeader == <<"Invalid file header (not a recognized image format)">>
ReasonAccess(msg) == <<"File access error: ", msg>>

\* the header test made before the size tests
validateHeaderFirst(f) ==
    IF ~f.stat THEN [valid |-> FALSE, reason |-> ReasonAccess(ErrStat)]
    ELSE IF ~f.read THEN [valid |-> FALSE, reason |-> ReasonAccess(ErrRead)]
    ELSE IF ~RecognizedHeader(ToHex(Content(f)))
         THEN [valid |-> FALSE, reason |-> ReasonHeader]
    ELSE IF f.size = 0 THEN [valid |-> FALSE, reason |-> ReasonEmpty]
    ELSE IF f.size < MinFileSize THEN [valid |-> FALSE, reason |-> ReasonTooSmall]
    ELSE [valid |-> TRUE, reason |-> <<>>]

\* the catch block answering without the message of the error
validateNoMessage(f) ==
    IF ~f.stat THEN [valid |-> FALSE, reason |-> <<"File access error">>]
    ELSE IF f.size = 0 THEN [valid |-> FALSE, reason |-> ReasonEmpty]
    ELSE IF f.size < MinFileSize THEN [valid |-> FALSE, reason |-> ReasonTooSmall]
    ELSE IF ~f.read THEN [valid |-> FALSE, reason |-> <<"File access error">>]
    ELSE IF ~RecognizedHeader(ToHex(Content(f)))
         THEN [valid |-> FALSE, reason |-> ReasonHeader]
    ELSE [valid |-> TRUE, reason |-> <<>>]

\* lib/pdf-generator.js
validateImageFile(f) ==
    IF ~f.stat THEN [valid |-> FALSE, reason |-> ReasonAccess(ErrStat)]
    ELSE IF f.size = 0 THEN [valid |-> FALSE, reason |-> ReasonEmpty]
    ELSE IF f.size < MinFileSize THEN [valid |-> FALSE, reason |-> ReasonTooSmall]
    ELSE IF ~f.read THEN [valid |-> FALSE, reason |-> ReasonAccess(ErrRead)]
    ELSE IF ~RecognizedHeader(ToHex(Content(f)))
         THEN [valid |-> FALSE, reason |-> ReasonHeader]
    ELSE [valid |-> TRUE, reason |-> <<>>]

\* hex.substring(0, 12)
HexPrefix(hex) == SubSeq(hex, 1, IF Len(hex) < 12 THEN Len(hex) ELSE 12)

\* diagnose-images.js: the same test, the result also carries the size
diagnoseValidateImageFile(f) ==
    IF ~f.stat
    THEN [valid |-> FALSE, reason |-> ReasonAccess(ErrStat), hex |-> <<>>, size |-> 0]
    ELSE IF f.size = 0
    THEN [valid |-> FALSE, reason |-> ReasonEmpty, hex |-> <<>>, size |-> 0]
    ELSE IF f.size < MinFileSize
    THEN [valid |-> FALSE, reason |-> ReasonTooSmall, hex |-> <<>>, size |-> f.size]
    ELSE IF ~f.read
    THEN [valid |-> FALSE, reason |-> ReasonAccess(ErrRead), hex |-> <<>>, size |-> 0]
    ELSE IF ~RecognizedHeader(ToHex(Content(f)))
    THEN [valid |-> FALSE, reason |-> <<"Invalid file header (", "...)">>,
          hex |-> HexPrefix(ToHex(Content(f))), size |-> f.size]
    ELSE [valid |-> TRUE, reason |-> <<>>, hex |-> <<>>, size |-> f.size]

----------------------------------------------------------------------------
(* The repair engine.  The decoder's behaviour on one image is the record  *)
(* env = [meta, encode, tolerant, stat, synth]: the metadata sharp reports *)
(* (meta.ok = FALSE: metadata() throws), and whether the tier-1 re-encode, *)
(* the tolerant re-decode, fs.statSync and the placeholder synthesis go    *)
(* through.  A path is <<chapter, file>>.                                  *)

TallThreshold == 10000
LargeThreshold == 50000000
HeightCap == 8000
EmergencyWidth == 720
PlaceholderWidth == 720
PlaceholderHeight == 1000

NoPath == <<>>
NoSize == [w |-> 0, h |-> 0, bytes |-> 0, text |-> ""]

ErrMetadata == "Input file contains unsupported image format"
ErrEncode == "VipsJpeg: premature end of JPEG image"
ErrTolerant == "Input file is missing or corrupt"
ErrSynth == "unable to write placeholder"

FixedPath(imagePath) == <<imagePath[1], imagePath[2] \o DotFixedJpg>>
RecoveredPath(imagePath) == <<imagePath[1], imagePath[2] \o DotRecoveredJpg>>

isProgressive(metadata) == metadata.isProgressive
isWebP(metadata) == metadata.format = "webp"
\* the height test with the threshold itself included
isVeryTallInclusive(metadata) == metadata.height >= TallThreshold

isVeryTall(metadata) == metadata.height > TallThreshold
isVeryLarge(metadata) == metadata.width * metadata.height > LargeThreshold

Min(a, b) == IF a < b THEN a ELSE b

\* Math.round of the quotient a / b of two positive integers
RoundDiv(a, b) == (2 * a + b) \div (2 * b)

\* sharp's resize with fit 'inside' and withoutEnlargement: <<width, height>>
ResizeInside(w, h, boxW, boxH) ==
    IF w <= boxW /\ h <= boxH THEN <<w, h>>
    ELSE IF boxW * h <= boxH * w THEN <<boxW, RoundDiv(h * boxW, w)>>
    ELSE <<RoundDiv(w * boxH, h), boxH>>

\* .resize({ width, height: Math.min(height, 8000), fit: 'inside', ... })
NormalizedSize(metadata) ==
    ResizeInside(metadata.width, metadata.height,
                 metadata.width, Min(metadata.height, HeightCap))

NeedsPreprocessing(metadata) ==
    isProgressive(metadata) \/ isWebP(metadata) \/ isVeryTall(metadata)
        \/ isVeryLarge(metadata)

Tier1Reason(metadata) ==
    IF isProgressive(metadata) THEN "Progressive JPEG"
    ELSE IF isWebP(metadata) THEN "WebP format"
    ELSE IF isVeryTall(metadata) THEN "Very tall image"
    ELSE "Very large image"

\* Strategy 2 of emergencyImageRecovery: the gray 720x1000 placeholder
placeholderStrategy(imagePath, f, env, strategy1Error) ==
    IF ~env.stat
    THEN [threw |-> TRUE,
          error |-> <<"All recovery strategies failed: ", strategy1Error, " | ", ErrStat>>,
          result |-> [success |-> FALSE], written |-> {},
          tiers |-> <<<<"placeholder", "threw">>>>]
    ELSE IF ~env.synth
    THEN [threw |-> TRUE,
          error |-> <<"All recovery strategies failed: ", strategy1Error, " | ", ErrSynth>>,
          result |-> [success |-> FALSE], written |-> {},
          tiers |-> <<<<"placeholder", "threw">>>>]
    ELSE [threw |-> FALSE, error |-> <<>>,
          result |-> [success |-> TRUE,
                      fixedPath |-> RecoveredPath(imagePath),
                      reason |-> "Placeholder for corrupted image",
                      error |-> <<>>,
                      originalFormat |-> "corrupted",
                      originalSize |-> [NoSize EXCEPT !.bytes = f.size,
                                                      !.text = " bytes (corrupted)"]],
          written |-> {[path |-> RecoveredPath(imagePath), kind |-> "placeholder",
                        width |-> PlaceholderWidth, height |-> PlaceholderHeight]},
          tiers |-> <<<<"placeholder", "ok">>>>]

\* emergency recovery that gives up after the tolerant re-decode
emergencyNoPlaceholder(imagePath, f, env) ==
    IF env.tolerant
    THEN [threw |-> FALSE, error |-> <<>>,
          result |-> [success |-> TRUE,
                      fixedPath |-> RecoveredPath(imagePath),
                      reason |-> "Emergency recovery (corrupted JPEG)",
                      error |-> <<>>,
                      originalFormat |-> "jpeg (corrupted)",
                      originalSize |-> [NoSize EXCEPT !.text = "unknown (corrupted)"]],
          written |-> {[path |-> RecoveredPath(imagePath), kind |-> "recovered",
                        width |-> 0, height |-> 0]},
          tiers |-> <<<<"emergency", "ok">>>>]
    ELSE [threw |-> TRUE,
          error |-> <<"All recovery strategies failed: ", ErrTolerant>>,
          result |-> [success |-> FALSE], written |-> {},
          tiers |-> <<<<"emergency", "threw">>>>]

\* emergency recovery that synthesizes the placeholder before the tolerant re-decode
emergencyPlaceholderFirst(imagePath, f, env) ==
    LET p == placeholderStrategy(imagePath, f, env, ErrTolerant)
    IN  [p EXCEPT !.tiers = p.tiers \o <<<<"emergency", IF env.tolerant THEN "ok" ELSE "threw">>>>]

\* emergencyImageRecovery: returns, or throws (threw = TRUE, with the message)
emergencyImageRecovery(imagePath, f, env) ==
    IF env.tolerant
    THEN [threw |-> FALSE, error |-> <<>>,
          result |-> [success |-> TRUE,
                      fixedPath |-> RecoveredPath(imagePath),
                      reason |-> "Emergency recovery (corrupted JPEG)",
                      error |-> <<>>,
                      originalFormat |-> "jpeg (corrupted)",
                      originalSize |-> [NoSize EXCEPT !.text = "unknown (corrupted)"]],
          written |-> {[path |-> RecoveredPath(imagePath), kind |-> "recovered",
                        width |-> ResizeInside(env.meta.width, env.meta.height,
                                               EmergencyWidth, HeightCap)[1],
                        height |-> ResizeInside(env.meta.width, env.meta.height,
                                                EmergencyWidth, HeightCap)[2]]},
          tiers |-> <<<<"emergency", "ok">>>>]
    ELSE LET p == placeholderStrategy(imagePath, f, env, ErrTolerant)
         IN  [p EXCEPT !.tiers = <<<<"emergency", "threw">>>> \o p.tiers]

\* the catch block of preprocessProblematicImage
recoverAfter(imagePath, f, env, errMessage) ==
    LET e == emergencyImageRecovery(imagePath, f, env)
    IN  IF e.threw
        THEN [result |-> [success |-> FALSE, fixedPath |-> NoPath, reason |-> "",
                          error |-> <<"Sharp failed: ", errMessage,
                                      ", Recovery failed: ">> \o e.error,
                          originalFormat |-> "", originalSize |-> NoSize],
              written |-> {},
              tiers |-> <<<<"normalize", "threw">>>> \o e.tiers]
        ELSE [result |-> e.result, written |-> e.written,
              tiers |-> <<<<"normalize", "threw">>>> \o e.tiers]

\* preprocessProblematicImage: never throws; result, files written, tiers run
preprocessProblematicImage(imagePath, f, env) ==
    IF ~env.meta.ok
    THEN recoverAfter(imagePath, f, env, ErrMetadata)
    ELSE IF NeedsPreprocessing(env.meta)
    THEN IF env.encode
         THEN [result |-> [success |-> TRUE,
                           fixedPath |-> FixedPath(imagePath),
                           reason |-> Tier1Reason(env.meta),
                           error |-> <<>>,
                           originalFormat |-> env.meta.format,
                           originalSize |-> [w |-> env.meta.width, h |-> env.meta.height,
                                             bytes |-> 0, text |-> "x"]],
               written |-> {[path |-> FixedPath(imagePath), kind |-> "normalized",
                             width |-> NormalizedSize(env.meta)[1],
                             height |-> NormalizedSize(env.meta)[2]]},
               tiers |-> <<<<"normalize", "ok">>>>]
         ELSE recoverAfter(imagePath, f, env, ErrEncode)
    ELSE [result |-> [success |-> TRUE, fixedPath |-> NoPath, reason |-> "",
                      error |-> <<>>, originalFormat |-> "", originalSize |-> NoSize],
          written |-> {},
          tiers |-> <<<<"normalize", "pass">>>>]

----------------------------------------------------------------------------
(* The manga folder and the inputs of a run.                               *)

Ch2 == <<"c","h","-","2">>
Ch10 == <<"c","h","-","1","0">>
InfoTxt == <<"i","n","f","o",".","t","x","t">>
Img2 == <<"2",".","j","p","g">>
Img10 == <<"1","0",".","P","N","G">>

OutputFileName == <<"m","a","n","g","a",".","p","d","f">>
ReportFileName ==
    <<"e","n","h","a","n","c","e","d","-","p","d","f","-",
      "g","e","n","e","r","a","t","i","o","n","-",
      "r","e","p","o","r","t",".","t","x","t">>

NoReport ==
    [written |-> FALSE, totalImages |-> 0, successfulImages |-> 0, fixedImages |-> 0,
     skippedImages |-> 0, rate |-> [nan |-> FALSE, tenths |-> 0],
     fixedFiles |-> <<>>, corruptedFiles |-> <<>>, errorDetails |-> <<>>]

DirNames == {Ch2, Ch10}
FileNames == {Img2, Img10, InfoTxt}

\* sequences of distinct elements of S, of length at most n
DistinctSeqs(S, n) ==
    {q \in UNION {[1..k -> S] : k \in 0..n} :
        \A a, b \in 1..Len(q) : a # b => q[a] # q[b]}

DirEntry(name) == [name |-> name, isDir |-> TRUE]
FileEntry(name) == [name |-> name, isDir |-> FALSE]

RootListings ==
    {<<>>, <<FileEntry(InfoTxt)>>, <<DirEntry(Ch10), FileEntry(InfoTxt), DirEntry(Ch2)>>}
        \cup {[k \in 1..Len(q) |-> DirEntry(q[k])] : q \in DistinctSeqs(DirNames, 2) \ {<<>>}}

InRoot(root, name) == \E k \in 1..Len(root) : root[k].name = name

\* every folder tree of at most MaxFiles files
Folders ==
    {[root |-> r, dirs |-> d, report |-> NoReport] :
        r \in RootListings, d \in [DirNames -> DistinctSeqs(FileNames, MaxFiles)]} 

TotalFiles(folder) == Len(folder.dirs[Ch2]) + Len(folder.dirs[Ch10])

InitialFolders ==
    {t \in Folders :
        /\ TotalFiles(t) <= MaxFiles
        /\ \A n \in DirNames : ~InRoot(t.root, n) => t.dirs[n] = <<>>}

NoFile == [stat |-> FALSE, read |-> FALSE, size |-> 0, off |-> 0, bytes |-> <<>>]

\* the contents a run meets: vanished, unreadable, empty, garbage, a JPEG
RunFiles ==
    { [stat |-> FALSE, read |-> FALSE, size |-> 100, off |-> 0, bytes |-> <<255, 216, 255>>],
      [stat |-> TRUE, read |-> FALSE, size |-> 100, off |-> 0, bytes |-> <<255, 216, 255>>],
      [stat |-> TRUE, read |-> TRUE, size |-> 0, off |-> 0, bytes |-> <<>>],
      [stat |-> TRUE, read |-> TRUE, size |-> 100, off |-> 0, bytes |-> <<1, 2, 3>>],
      [stat |-> TRUE, read |-> TRUE, size |-> 100, off |-> 0, bytes |-> <<255, 216, 255>>] }

\* what sharp finds in an image that PDFKit refused
RunMetas ==
    { [ok |-> TRUE, isProgressive |-> FALSE, format |-> "jpeg", width |-> 800, height |-> 1200],
      [ok |-> TRUE, isProgressive |-> TRUE, format |-> "jpeg", width |-> 800, height |-> 1200],
      [ok |-> FALSE, isProgressive |-> FALSE, format |-> "jpeg", width |-> 800, height |-> 1200] }

\* the answers of the decoder and the file system to the calls a repair makes;
\* a call the repair does not reach has no answer to vary (it is left TRUE)
RunEnvs ==
    {e \in [meta : RunMetas, encode : BOOLEAN, tolerant : BOOLEAN, stat : BOOLEAN,
            synth : BOOLEAN] :
        LET reencodes == e.meta.ok /\ NeedsPreprocessing(e.meta)
            tier1Threw == ~e.meta.ok \/ (reencodes /\ ~e.encode)
        IN  /\ ~reencodes => e.encode
            /\ ~tier1Threw => e.tolerant
            /\ (~tier1Threw \/ e.tolerant) => (e.stat /\ e.synth)}

NoEnv ==
    [meta |-> [ok |-> FALSE, isProgressive |-> FALSE, format |-> "", width |-> 0, height |-> 0],
     encode |-> FALSE, tolerant |-> FALSE, stat |-> FALSE, synth |-> FALSE]

NoResult ==
    [success |-> FALSE, fixedPath |-> NoPath, reason |-> "", error |-> <<>>,
     originalFormat |-> "", originalSize |-> NoSize]

\* the locals of one iteration of the image loop
NoCur ==
    [file |-> NoFile, err |-> "", env |-> NoEnv, pre |-> NoResult, tiers |-> <<>>,
     written |-> {}]

ErrCompose == "Unknown image format."
ErrUnlink == "EPERM: operation not permitted, unlink"
ErrNoChapters == "No chapters found in the manga folder"

StandardWidth == 800
VeryTallHeight == 15000
PlaceholderPageHeight == 600

\* what the text of a page states: a label, a file name, a chapter, an error
NoText == [label |-> "", file |-> <<>>, chapter |-> <<>>, error |-> ""]

\* doc.addPage({ size: [standardWidth, veryTallHeight], margin: 0 })
ImagePage(imagePath) ==
    [image |-> imagePath, width |-> StandardWidth, height |-> VeryTallHeight,
     drawn |-> NoPath, text |-> NoText]

\* doc.addPage({ size: [standardWidth, 600], margin: 20 }) and the red text
ErrorPage(imagePath) ==
    [image |-> imagePath, width |-> StandardWidth, height |-> PlaceholderPageHeight,
     drawn |-> NoPath,
     text |-> [NoText EXCEPT !.label = "Failed to load: ", !.file = imagePath[2]]]

\* doc.image(path, 0, 0, { width }) on the current (last) page
DrawOnLastPage(pages, path) ==
    [pages EXCEPT ![Len(pages)].drawn = path]

\* one call to a collaborator: made while processing `image', on `path';
\* `file' is the content validateImageFile met
Call(op, image, path, file) == [op |-> op, image |-> image, path |-> path, file |-> file]

InitStats ==
    [totalImages |-> 0, successfulImages |-> 0, skippedImages |-> 0, fixedImages |-> 0,
     corruptedFiles |-> <<>>, fixedFiles |-> <<>>, errorDetails |-> <<>>]

\* ((successfulImages / totalImages) * 100).toFixed(1), in tenths of a percent
SuccessRate(st) ==
    IF st.totalImages = 0
    THEN [nan |-> TRUE, tenths |-> 0]
    ELSE [nan |-> FALSE, tenths |-> RoundDiv(st.successfulImages * 1000, st.totalImages)]

\* appending a name to a listing unless it is there (creating or truncating a file)
WithName(listing, name) ==
    IF \E k \in 1..Len(listing) : listing[k] = name THEN listing ELSE Append(listing, name)

WithoutName(listing, name) == SelectSeq(listing, LAMBDA n : n # name)

WithEntry(root, name) ==
    IF InRoot(root, name) THEN root ELSE Append(root, FileEntry(name))

RECURSIVE WriteAll(_, _)
WriteAll(dirs, written) ==
    IF written = {} THEN dirs
    ELSE LET w == CHOOSE x \in written : TRUE
         IN  WriteAll([dirs EXCEPT ![w.path[1]] = WithName(@, w.path[2])], written \ {w})

----------------------------------------------------------------------------
(* createMangaPDF(mangaFolderPath, outputFileName).                        *)

NoVerdicts ==
    [pdfDone |-> FALSE, pdf |-> [valid |-> FALSE, reason |-> <<>>],
     diagDone |-> FALSE,
     diag |-> [valid |-> FALSE, reason |-> <<>>, hex |-> <<>>, size |-> 0]]

NoOutcome == [status |-> "pending", error |-> "", outputPath |-> <<>>, stats |-> InitStats]

ImagePath == <<chapters[ci], images[ii]>>

\* scrapeManga and the server are not running
NoCrawl ==
    [pc |-> "off", currentUrl |-> 0, errorCount |-> 0, chaptersDownloaded |-> 0,
     attempts |-> <<>>]

NoServer ==
    [phase |-> "off", route |-> "", started |-> <<>>, images |-> 0, raised |-> "",
     responses |-> <<>>]

\* Two calls of createMangaPDF in a row on one folder.  While `on', the
\* first run notes what each image met (its content, whether PDFKit drew
\* it, what the repair returned, whether the retry and the deletion went through)
\* and the second run meets the same: the outcomes are deterministic.
NoFate ==
    [file |-> NoFile, ok |-> FALSE, pre |-> NoResult, retryOk |-> FALSE, unlinkOk |-> FALSE]

NoReplay ==
    [on |-> FALSE, run |-> 1, chapters |-> <<>>, stats |-> InitStats, fate |-> <<>>]

Replaying(image) == replay.run = 2 /\ image \in DOMAIN replay.fate

FateOf(image) == IF image \in DOMAIN replay.fate THEN replay.fate[image] ELSE NoFate

Remember(fate) ==
    IF replay.on /\ replay.run = 1
    THEN [replay EXCEPT !.fate = (ImagePath :> fate) @@ @]
    ELSE replay

Init ==
    /\ fsys \in InitialFolders
    /\ pc = "start"
    /\ chapters = <<>>
    /\ ci = 0
    /\ images = <<>>
    /\ ii = 0
    /\ stats = InitStats
    /\ doc = [created |-> FALSE, pages |-> <<>>, ended |-> FALSE]
    /\ stream = "none"
    /\ cur = NoCur
    /\ calls = <<>>
    /\ outcome = NoOutcome
    /\ vin = NoFile
    /\ vout = NoVerdicts
    /\ replay = NoReplay
    /\ crawl = NoCrawl
    /\ server = NoServer

\* fs.readdirSync(mangaFolderPath).filter(isDirectory).sort(...)
ChapterFolders(root) ==
    LET dirs == SelectSeq(root, LAMBDA e : e.isDir)
    IN  SortByNumber([k \in 1..Len(dirs) |-> dirs[k].name])

\* fs.readdirSync(chapterPath).filter(...).sort(...)
ChapterImages(listing) == SortByNumber(SelectSeq(listing, IsInputImage))

\* the document and the output stream opened before the chapters are counted
ReadRootDocFirst ==
    /\ pc = "start"
    /\ doc' = [doc EXCEPT !.created = TRUE]
    /\ stream' = "open"
    /\ fsys' = [fsys EXCEPT !.root = WithEntry(@, OutputFileName)]
    /\ LET chs == ChapterFolders(fsys.root)
       IN  IF Len(chs) = 0
           THEN /\ pc' = "rejected"
                /\ outcome' = [outcome EXCEPT !.status = "rejected", !.error = ErrNoChapters]
                /\ UNCHANGED <<chapters, ci, crawl, server>>
           ELSE /\ pc' = "chapter"
                /\ chapters' = chs
                /\ ci' = 1
                /\ UNCHANGED outcome
    /\ UNCHANGED <<images, ii, stats, cur, calls, vin, vout, replay, crawl, server>>

\* the chapter listing; no chapters is fatal, otherwise the document is opened
ReadRoot ==
    /\ pc = "start"
    /\ LET chs == ChapterFolders(fsys.root)
       IN  IF Len(chs) = 0
           THEN /\ pc' = "rejected"
                /\ outcome' = [outcome EXCEPT !.status = "rejected", !.error = ErrNoChapters]
                /\ UNCHANGED <<fsys, chapters, ci, doc, stream, crawl, server>>
           ELSE /\ pc' = "chapter"
                /\ chapters' = chs
                /\ ci' = 1
                /\ doc' = [doc EXCEPT !.created = TRUE]
                /\ stream' = "open"
                /\ fsys' = [fsys EXCEPT !.root = WithEntry(@, OutputFileName)]
                /\ UNCHANGED outcome
    /\ UNCHANGED <<images, ii, stats, cur, calls, vin, vout, replay, crawl, server>>

\* head of the chapter loop: list, filter and sort the images, count them
OpenChapter ==
    /\ pc = "chapter"
    /\ ci <= Len(chapters)
    /\ LET imgs == ChapterImages(fsys.dirs[chapters[ci]])
       IN  /\ images' = imgs
           /\ stats' = [stats EXCEPT !.totalImages = @ + Len(imgs)]
    /\ ii' = 1
    /\ pc' = "image"
    /\ UNCHANGED <<fsys, chapters, ci, doc, stream, cur, calls, outcome, vin, vout, replay, crawl, server>>

\* end of the image loop of a chapter
CloseChapter ==
    /\ pc = "image"
    /\ ii > Len(images)
    /\ ci' = ci + 1
    /\ pc' = "chapter"
    /\ UNCHANGED <<fsys, chapters, images, ii, stats, doc, stream, cur, calls, outcome,
                   vin, vout, replay, crawl, server>>

\* an invalid image recorded, but composed all the same (no `continue')
ValidateFallThrough(f) ==
    /\ pc = "image"
    /\ ii <= Len(images)
    /\ calls' = Append(calls, Call("validateImageFile", ImagePath, ImagePath, f))
    /\ LET validation == validateImageFile(f)
       IN  IF ~validation.valid
           THEN stats' = [stats EXCEPT
                             !.skippedImages = @ + 1,
                             !.corruptedFiles = Append(@,
                                 [file |-> ImagePath, chapter |-> chapters[ci],
                                  reason |-> validation.reason])]
           ELSE UNCHANGED stats
    /\ cur' = [NoCur EXCEPT !.file = f]
    /\ pc' = "direct"
    /\ UNCHANGED <<fsys, chapters, ci, images, ii, doc, stream, outcome, vin, vout, replay, crawl, server>>

\* validateImageFile(imagePath); an invalid image is recorded and skipped
Validate(f) ==
    /\ pc = "image"
    /\ ii <= Len(images)
    /\ Replaying(ImagePath) => f = replay.fate[ImagePath].file
    /\ replay' = Remember([NoFate EXCEPT !.file = f])
    /\ calls' = Append(calls, Call("validateImageFile", ImagePath, ImagePath, f))
    /\ LET validation == validateImageFile(f)
       IN  IF ~validation.valid
           THEN /\ stats' = [stats EXCEPT
                                !.skippedImages = @ + 1,
                                !.corruptedFiles = Append(@,
                                    [file |-> ImagePath, chapter |-> chapters[ci],
                                     reason |-> validation.reason])]
                /\ ii' = ii + 1
                /\ cur' = NoCur
                /\ pc' = "image"
           ELSE /\ cur' = [NoCur EXCEPT !.file = f]
                /\ pc' = "direct"
                /\ UNCHANGED <<stats, ii, crawl, server>>
    /\ UNCHANGED <<fsys, chapters, ci, images, doc, stream, outcome, vin, vout, crawl, server>>

\* doc.addPage(...); doc.image(imagePath, ...): drawn, or PDFKit throws
Compose(ok) ==
    /\ pc = "direct"
    /\ Replaying(ImagePath) => ok = replay.fate[ImagePath].ok
    /\ replay' = Remember([FateOf(ImagePath) EXCEPT !.ok = ok])
    /\ calls' = calls \o <<Call("doc.addPage", ImagePath, ImagePath, NoFile),
                         Call("doc.image", ImagePath, ImagePath, NoFile)>>
    /\ IF ok
       THEN /\ doc' = [doc EXCEPT
                          !.pages = DrawOnLastPage(Append(@, ImagePage(ImagePath)), ImagePath)]
            /\ stats' = [stats EXCEPT !.successfulImages = @ + 1]
            /\ ii' = ii + 1
            /\ cur' = NoCur
            /\ pc' = "image"
       ELSE /\ doc' = [doc EXCEPT !.pages = Append(@, ImagePage(ImagePath))]
            /\ cur' = [cur EXCEPT !.err = ErrCompose]
            /\ pc' = "repair"
            /\ UNCHANGED <<stats, ii, crawl, server>>
    /\ UNCHANGED <<fsys, chapters, ci, images, stream, outcome, vin, vout, crawl, server>>

\* await preprocessProblematicImage(imagePath)
Repair(env) ==
    /\ pc = "repair"
    /\ Replaying(ImagePath) =>
          preprocessProblematicImage(ImagePath, cur.file, env).result
              = replay.fate[ImagePath].pre
    /\ replay' = Remember([FateOf(ImagePath) EXCEPT
                              !.pre = preprocessProblematicImage(ImagePath, cur.file,
                                                                 env).result])
    /\ calls' = Append(calls,
                       Call("preprocessProblematicImage", ImagePath, ImagePath, NoFile))
    /\ LET r == preprocessProblematicImage(ImagePath, cur.file, env)
       IN  /\ cur' = [cur EXCEPT !.env = env, !.pre = r.result, !.tiers = r.tiers,
                                  !.written = r.written]
           /\ fsys' = [fsys EXCEPT !.dirs = WriteAll(@, r.written)]
    /\ pc' = "repaired"
    /\ UNCHANGED <<chapters, ci, images, ii, stats, doc, stream, outcome, vin, vout, crawl, server>>

\* doc.addPage({ size: [standardWidth, 600], margin: 20 }); doc...text(...)
PlaceholderCalls ==
    <<Call("doc.addPage", ImagePath, ImagePath, NoFile),
      Call("doc.text", ImagePath, ImagePath, NoFile)>>

\* the catch (retryErr) block and the else branch: count and record the failure
SkipWithPlaceholder(st, message) ==
    [st EXCEPT
        !.skippedImages = @ + 1,
        !.errorDetails = Append(@, [file |-> ImagePath, chapter |-> chapters[ci],
                                     error |-> message])]

PostFix(message) == [prefix |-> "Post-fix error: ", message |-> message]
Plain(message) == [prefix |-> "", message |-> message]

\* the retry block: draw the fixed image, count it, delete the temporary file
RetryCounted(st) ==
    [st EXCEPT
        !.successfulImages = @ + 1,
        !.fixedImages = @ + 1,
        !.fixedFiles = Append(@, [original |-> ImagePath,
                                   fixed |-> cur.pre.fixedPath,
                                   reason |-> cur.pre.reason,
                                   originalFormat |-> cur.pre.originalFormat,
                                   originalSize |-> cur.pre.originalSize])]

Unlink(folder, path) ==
    [folder EXCEPT !.dirs[path[1]] = WithoutName(@, path[2])]

\* a repair that reports failure propagates to the outer catch and rejects
AfterRepairPropagating(retryOk, unlinkOk) ==
    /\ pc = "repaired"
    /\ IF cur.pre.success
       THEN /\ stats' = SkipWithPlaceholder(stats, Plain(cur.err))
            /\ doc' = [doc EXCEPT !.pages = Append(@, ErrorPage(ImagePath))]
            /\ ii' = ii + 1
            /\ pc' = "image"
            /\ UNCHANGED outcome
       ELSE /\ pc' = "rejected"
            /\ outcome' = [outcome EXCEPT !.status = "rejected", !.error = cur.err]
            /\ UNCHANGED <<stats, doc, ii, crawl, server>>
    /\ cur' = NoCur
    /\ UNCHANGED <<fsys, calls, chapters, ci, images, stream, vin, vout, replay, crawl, server>>

\* a repair that reports success never leads to an error record
AfterRepairSilent(retryOk, unlinkOk) ==
    /\ pc = "repaired"
    /\ stats' = IF cur.pre.success THEN stats ELSE SkipWithPlaceholder(stats, Plain(cur.err))
    /\ doc' = [doc EXCEPT !.pages = Append(@, ErrorPage(ImagePath))]
    /\ ii' = ii + 1
    /\ cur' = NoCur
    /\ pc' = "image"
    /\ UNCHANGED <<fsys, calls, chapters, ci, images, stream, outcome, vin, vout, replay,
                   crawl, server>>

\* a pass-through answer taken as leave to draw the image's own file again
AfterRepairPassDraws(retryOk, unlinkOk) ==
    /\ pc = "repaired"
    /\ IF cur.pre.success /\ cur.pre.fixedPath = NoPath
       THEN /\ calls' = Append(calls, Call("doc.image", ImagePath, ImagePath, NoFile))
            /\ stats' = [stats EXCEPT !.successfulImages = @ + 1]
            /\ doc' = [doc EXCEPT !.pages = DrawOnLastPage(@, ImagePath)]
       ELSE /\ calls' = calls \o PlaceholderCalls
            /\ stats' = SkipWithPlaceholder(stats, Plain(cur.err))
            /\ doc' = [doc EXCEPT !.pages = Append(@, ErrorPage(ImagePath))]
    /\ ii' = ii + 1
    /\ cur' = NoCur
    /\ pc' = "image"
    /\ UNCHANGED <<fsys, chapters, ci, images, stream, outcome, vin, vout, replay, crawl,
                   server>>

\* continuation after the await: retry with the fixed path, or give up
AfterRepair(retryOk, unlinkOk) ==
    /\ pc = "repaired"
    /\ LET retried == cur.pre.success /\ cur.pre.fixedPath # NoPath
           drawn == retried /\ retryOk
           deleted == drawn /\ unlinkOk
       IN  /\ Replaying(ImagePath) =>
                 /\ drawn = replay.fate[ImagePath].retryOk
                 /\ deleted = replay.fate[ImagePath].unlinkOk
           /\ replay' = Remember([FateOf(ImagePath) EXCEPT !.retryOk = drawn,
                                                           !.unlinkOk = deleted])
    /\ IF cur.pre.success /\ cur.pre.fixedPath # NoPath
       THEN IF ~retryOk
            THEN \* doc.image(fixedPath) throws
                 /\ calls' = Append(calls, Call("doc.image", ImagePath, cur.pre.fixedPath,
                                                NoFile)) \o PlaceholderCalls
                 /\ stats' = SkipWithPlaceholder(stats, PostFix(ErrCompose))
                 /\ doc' = [doc EXCEPT !.pages = Append(@, ErrorPage(ImagePath))]
                 /\ UNCHANGED fsys
            ELSE IF unlinkOk
            THEN /\ calls' = calls \o <<Call("doc.image", ImagePath, cur.pre.fixedPath, NoFile),
                                        Call("fs.unlinkSync", ImagePath, cur.pre.fixedPath, NoFile)>>
                 /\ stats' = RetryCounted(stats)
                 /\ doc' = [doc EXCEPT !.pages = DrawOnLastPage(@, cur.pre.fixedPath)]
                 /\ fsys' = Unlink(fsys, cur.pre.fixedPath)
            ELSE \* fs.unlinkSync throws inside the retry block
                 /\ calls' = calls \o <<Call("doc.image", ImagePath, cur.pre.fixedPath, NoFile),
                                        Call("fs.unlinkSync", ImagePath, cur.pre.fixedPath, NoFile)>>
                                  \o PlaceholderCalls
                 /\ stats' = SkipWithPlaceholder(RetryCounted(stats), PostFix(ErrUnlink))
                 /\ doc' = [doc EXCEPT
                               !.pages = Append(DrawOnLastPage(@, cur.pre.fixedPath),
                                                ErrorPage(ImagePath))]
                 /\ UNCHANGED fsys
       ELSE /\ stats' = SkipWithPlaceholder(stats, Plain(cur.err))
            /\ doc' = [doc EXCEPT !.pages = Append(@, ErrorPage(ImagePath))]
            /\ calls' = calls \o PlaceholderCalls
            /\ UNCHANGED fsys
    /\ ii' = ii + 1
    /\ cur' = NoCur
    /\ pc' = "image"
    /\ UNCHANGED <<chapters, ci, images, stream, outcome, vin, vout, crawl, server>>

\* after the chapter loop: doc.end()
EndDocument ==
    /\ pc = "chapter"
    /\ ci > Len(chapters)
    /\ doc' = [doc EXCEPT !.ended = TRUE]
    /\ pc' = "flushing"
    /\ UNCHANGED <<fsys, chapters, ci, images, ii, stats, stream, cur, calls, outcome,
                   vin, vout, replay, crawl, server>>

ReportOf(st) ==
    [written |-> TRUE, totalImages |-> st.totalImages,
     successfulImages |-> st.successfulImages, fixedImages |-> st.fixedImages,
     skippedImages |-> st.skippedImages, rate |-> SuccessRate(st),
     fixedFiles |-> st.fixedFiles, corruptedFiles |-> st.corruptedFiles,
     errorDetails |-> st.errorDetails]

\* stream.on('finish'): the summary, the report file, resolve({ outputPath, stats })
StreamFinish ==
    /\ pc = "flushing"
    /\ stream' = "finished"
    /\ fsys' = [fsys EXCEPT !.root = WithEntry(@, ReportFileName), !.report = ReportOf(stats)]
    /\ outcome' = [status |-> "resolved", error |-> "",
                   outputPath |-> OutputFileName, stats |-> stats]
    /\ pc' = "resolved"
    /\ UNCHANGED <<chapters, ci, images, ii, stats, doc, cur, calls, vin, vout, replay, crawl, server>>

Next ==
    \/ ReadRoot
    \/ OpenChapter
    \/ CloseChapter
    \/ \E f \in RunFiles : Validate(f)
    \/ \E ok \in BOOLEAN : Compose(ok)
    \/ \E env \in RunEnvs : Repair(env)
    \/ \E retryOk, unlinkOk \in BOOLEAN : AfterRepair(retryOk, unlinkOk)
    \/ EndDocument
    \/ StreamFinish

Spec == Init /\ [][Next]_vars

FairSpec == Spec /\ WF_vars(Next)

----------------------------------------------------------------------------
(* createMangaPDF called a second time on the folder the first call left.  *)

MaxTwice == 1

InitTwice ==
    /\ fsys \in {t \in InitialFolders : TotalFiles(t) <= MaxTwice}
    /\ pc = "start"
    /\ chapters = <<>>
    /\ ci = 0
    /\ images = <<>>
    /\ ii = 0
    /\ stats = InitStats
    /\ doc = [created |-> FALSE, pages |-> <<>>, ended |-> FALSE]
    /\ stream = "none"
    /\ cur = NoCur
    /\ calls = <<>>
    /\ outcome = NoOutcome
    /\ vin = NoFile
    /\ vout = NoVerdicts
    /\ replay = [NoReplay EXCEPT !.on = TRUE]
    /\ crawl = NoCrawl
    /\ server = NoServer

\* the second call: fresh statistics, document and promise, the same folder
Restart ==
    /\ pc = "resolved"
    /\ replay.on
    /\ replay.run = 1
    /\ replay' = [replay EXCEPT !.run = 2, !.chapters = chapters, !.stats = stats]
    /\ pc' = "start"
    /\ chapters' = <<>>
    /\ ci' = 0
    /\ images' = <<>>
    /\ ii' = 0
    /\ stats' = InitStats
    /\ doc' = [created |-> FALSE, pages |-> <<>>, ended |-> FALSE]
    /\ stream' = "none"
    /\ cur' = NoCur
    /\ calls' = <<>>
    /\ outcome' = NoOutcome
    /\ UNCHANGED <<fsys, vin, vout, crawl, server>>

NextTwice == Next \/ Restart

SpecTwice == InitTwice /\ [][NextTwice]_vars

----------------------------------------------------------------------------
(* validateImageFile on its own: every file of ValidateInputs is handed to *)
(* the validator of lib/pdf-generator.js and to the one of                 *)
(* diagnose-images.js.                                                     *)

HeaderBytes == {0, 255, 216, 71, 73, 70}

PngHeader == <<137, 80, 78, 71>>
WebpHeader == <<82, 73, 70, 70, 0, 0, 0, 0, 87, 69, 66, 80>>

HeaderSamples ==
    UNION {[1..k -> HeaderBytes] : k \in 0..MaxHead} \cup {PngHeader, WebpHeader}

SizeSamples == {0, 1, 2, 3, 50, MinFileSize - 1, MinFileSize, MinFileSize + 1}

ValidateInputs ==
    {f \in [stat : BOOLEAN, read : BOOLEAN, size : SizeSamples, off : {0, 11},
            bytes : HeaderSamples] :
        f.off + Len(f.bytes) <= f.size}

InitValidate ==
    /\ vin \in ValidateInputs
    /\ vout = NoVerdicts
    /\ fsys = [root |-> <<>>, dirs |-> [n \in DirNames |-> <<>>], report |-> NoReport]
    /\ pc = "idle"
    /\ chapters = <<>>
    /\ ci = 0
    /\ images = <<>>
    /\ ii = 0
    /\ stats = InitStats
    /\ doc = [created |-> FALSE, pages |-> <<>>, ended |-> FALSE]
    /\ stream = "none"
    /\ cur = NoCur
    /\ calls = <<>>
    /\ outcome = NoOutcome
    /\ replay = NoReplay
    /\ crawl = NoCrawl
    /\ server = NoServer

ValidatePdf ==
    /\ pc = "idle"
    /\ ~vout.pdfDone
    /\ vout' = [vout EXCEPT !.pdfDone = TRUE, !.pdf = validateImageFile(vin)]
    /\ UNCHANGED <<fsys, pc, chapters, ci, images, ii, stats, doc, stream, cur, calls,
                   outcome, vin, replay, crawl, server>>

ValidateDiagnose ==
    /\ pc = "idle"
    /\ ~vout.diagDone
    /\ vout' = [vout EXCEPT !.diagDone = TRUE, !.diag = diagnoseValidateImageFile(vin)]
    /\ UNCHANGED <<fsys, pc, chapters, ci, images, ii, stats, doc, stream, cur, calls,
                   outcome, vin, replay, crawl, server>>

NextValidate == ValidatePdf \/ ValidateDiagnose

SpecValidate == InitValidate /\ [][NextValidate]_vars

----------------------------------------------------------------------------
(* Vocabulary of the properties.                                           *)

Pages == doc.pages

PagesOf(image) == {k \in 1..Len(Pages) : Pages[k].image = image}

CallsOf(op) == {k \in 1..Len(calls) : calls[k].op = op}

Recorded(list) == {list[k].file : k \in 1..Len(list)}

\* the images that passed validation
ValidatedImages ==
    {calls[k].image : k \in CallsOf("validateImageFile")} \ Recorded(stats.corruptedFiles)

\* the image loop is between two images, or the run is past the loops
BetweenImages == pc \in {"image", "chapter", "flushing", "resolved"}

Finished == pc = "resolved"

\* names the repair engine generates
IsTempName(name) == EndsWith(name, DotFixedJpg) \/ EndsWith(name, DotRecoveredJpg)

TempFilesOnDisk ==
    UNION {{<<d, fsys.dirs[d][k]>> :
                k \in {j \in 1..Len(fsys.dirs[d]) : IsTempName(fsys.dirs[d][j])}} :
           d \in DirNames}

UnlinkAttempted(path) == \E k \in CallsOf("fs.unlinkSync") : calls[k].path = path

\* the input images of the folder, chapter by chapter
InputImages ==
    UNION {{<<fsys.root[k].name, n>> :
                n \in {fsys.dirs[fsys.root[k].name][j] :
                          j \in {i \in 1..Len(fsys.dirs[fsys.root[k].name]) :
                                    IsInputImage(fsys.dirs[fsys.root[k].name][i])}}} :
           k \in {i \in 1..Len(fsys.root) : fsys.root[i].isDir}}

HasChapter == \E k \in 1..Len(fsys.root) : fsys.root[k].isDir

----------------------------------------------------------------------------
(* C1: when a run of createMangaPDF has completed, every image that passed *)
(* validation has exactly one page in the document, its content page or a  *)
(* placeholder page: never none and never two.                             *)
C1_OnePagePerValidatedImage ==
    Finished => \A image \in ValidatedImages : Cardinality(PagesOf(image)) = 1

(* C2: at completion successfulImages + skippedImages = totalImages and    *)
(* fixedImages <= successfulImages, whatever happened to each image,       *)
(* a raise of the deletion of the temporary file included.                 *)
C2_CountersAddUp ==
    Finished =>
        /\ stats.successfulImages + stats.skippedImages = stats.totalImages
        /\ stats.fixedImages <= stats.successfulImages

(* C3: between two images, and at completion, no temporary file of the     *)
(* repair engine (path.fixed.jpg, path.recovered.jpg) is on disk, on every *)
(* exit path of the image that caused it.  A file whose deletion was       *)
(* called and raised is not counted against the assembler here.            *)
C3_TemporaryFilesDeleted ==
    BetweenImages => \A path \in TempFilesOnDisk : UnlinkAttempted(path)

(* C4: on a root whose chapter folders hold no image at all, createMangaPDF *)
(* never creates the document, never opens the output file, never writes   *)
(* the report and never resolves: it fails before any of that.             *)
C4_NoImagesIsFatal ==
    (InputImages = {} /\ pc # "start") =>
        /\ ~doc.created
        /\ stream = "none"
        /\ ~InRoot(fsys.root, OutputFileName)
        /\ ~fsys.report.written
        /\ outcome.status # "resolved"

(* C5: on a root without any chapter subfolder createMangaPDF rejects with *)
(* 'No chapters found in the manga folder' and leaves nothing behind: no   *)
(* document, no write stream, no PDF file, no report, no statistics.       *)
C5_NoChaptersRejects ==
    (~HasChapter /\ pc # "start") =>
        /\ pc = "rejected"
        /\ outcome.status = "rejected"
        /\ outcome.error = "No chapters found in the manga folder"
        /\ outcome.outputPath = <<>>
        /\ outcome.stats = InitStats
        /\ ~doc.created
        /\ stream = "none"
        /\ ~InRoot(fsys.root, OutputFileName)
        /\ ~InRoot(fsys.root, ReportFileName)
        /\ ~fsys.report.written

\* a root that holds a plain file and no folder has been rejected
C5_Witness ==
    /\ pc = "rejected"
    /\ fsys.root = <<FileEntry(InfoTxt)>>

(* C6: with at least one chapter and at least one image the run always     *)
(* ends the document, writes enhanced-pdf-generation-report.txt and        *)
(* resolves with {outputPath, stats}, whatever happens to each image; and  *)
(* a run is rejected only for lack of chapters, never for an image.        *)
C6_AlwaysFinalizes ==
    /\ (pc = "start" /\ HasChapter /\ InputImages # {})
          ~> (/\ pc = "resolved"
              /\ doc.ended
              /\ stream = "finished"
              /\ fsys.report.written
              /\ InRoot(fsys.root, ReportFileName)
              /\ outcome.status = "resolved"
              /\ outcome.outputPath = OutputFileName
              /\ outcome.stats = stats)
    /\ [](pc = "rejected" => ~HasChapter)

\* a run in which every image failed has resolved, report written
C6_Witness ==
    /\ pc = "resolved"
    /\ fsys.report.written
    /\ stats.totalImages >= 2
    /\ stats.successfulImages = 0
    /\ Len(stats.errorDetails) >= 1
    /\ Len(stats.corruptedFiles) >= 1

\* position of a name in a listing (0 when absent)
NamePos(listing, name) ==
    IF \E k \in 1..Len(listing) : listing[k] = name
    THEN CHOOSE k \in 1..Len(listing) : listing[k] = name
    ELSE 0

RootPos(name) ==
    IF InRoot(fsys.root, name)
    THEN CHOOSE k \in 1..Len(fsys.root) : fsys.root[k].name = name
    ELSE 0

\* a comes strictly before b in the reading order: chapter key, then image
\* key, ties in the order of the directory listing
ReadsBefore(a, b) ==
    IF a[1] # b[1]
    THEN \/ NumKey(a[1]) < NumKey(b[1])
         \/ NumKey(a[1]) = NumKey(b[1]) /\ RootPos(a[1]) < RootPos(b[1])
    ELSE \/ NumKey(a[2]) < NumKey(b[2])
         \/ /\ NumKey(a[2]) = NumKey(b[2])
            /\ NamePos(fsys.dirs[a[1]], a[2]) < NamePos(fsys.dirs[a[1]], b[2])

(* C7: the pages follow the reading order (chapter sort order, then image   *)
(* sort order): of two pages of different images, the earlier page belongs *)
(* to the image that reads first; and the images are processed one at a    *)
(* time: the calls made for one image are consecutive, start with its      *)
(* validation, follow the reading order, and nothing of an image is        *)
(* pending when the next validation is due.                                *)
C7_PageOrder ==
    /\ \A i, j \in 1..Len(Pages) :
          i < j => \/ Pages[i].image = Pages[j].image
                   \/ ReadsBefore(Pages[i].image, Pages[j].image)
    /\ \A i \in 1..(Len(calls) - 1) :
          \/ calls[i].image = calls[i + 1].image
          \/ ReadsBefore(calls[i].image, calls[i + 1].image)
    /\ \A k \in CallsOf("validateImageFile") :
          \A i \in 1..(k - 1) : calls[i].image # calls[k].image
    /\ pc = "image" => cur = NoCur

\* the root lists ch-10 before ch-2, and the document holds a page of ch-2
\* followed by a page of ch-10
C7_Witness ==
    /\ Len(fsys.root) >= 2
    /\ fsys.root[1].name = Ch10
    /\ Len(Pages) >= 2
    /\ Pages[1].image[1] = Ch2
    /\ Pages[Len(Pages)].image[1] = Ch10

(* C8: an image that fails validation is counted in skippedImages, gets    *)
(* one corruptedFiles record with the validator's reason, gets no page,    *)
(* is never handed to composition or repair, and the run goes on: every    *)
(* image of the folder has been validated when the run completes.          *)
C8_InvalidSkipped ==
    /\ \A k \in 1..Len(stats.corruptedFiles) :
          LET r == stats.corruptedFiles[k]
              mine == {i \in 1..Len(calls) : calls[i].image = r.file}
          IN  /\ PagesOf(r.file) = {}
              /\ Cardinality(mine) = 1
              /\ \A i \in mine :
                    /\ calls[i].op = "validateImageFile"
                    /\ calls[i].file.stat /\ calls[i].file.size = 0
                          => r.reason = <<"Empty file (0 bytes)">>
                    /\ calls[i].file.stat /\ calls[i].file.size >= 100 /\ ~calls[i].file.read
                          => r.reason[1] = "File access error: "
                    /\ calls[i].file.stat /\ calls[i].file.size >= 100 /\ calls[i].file.read
                          => r.reason =
                               <<"Invalid file header (not a recognized image format)">>
              /\ r.chapter = r.file[1]
              /\ \A j \in 1..Len(stats.corruptedFiles) :
                    stats.corruptedFiles[j].file = r.file => j = k
              /\ \A t \in TempFilesOnDisk :
                    t # FixedPath(r.file) /\ t # RecoveredPath(r.file)
    /\ stats.skippedImages = Len(stats.corruptedFiles) + Len(stats.errorDetails)
    /\ \A k \in CallsOf("validateImageFile") :
          (BetweenImages /\ ~\E i \in CallsOf("doc.addPage") : calls[i].image = calls[k].image)
              => calls[k].image \in Recorded(stats.corruptedFiles)
    /\ Finished => {calls[k].image : k \in CallsOf("validateImageFile")} = InputImages

\* an invalid image was skipped and a later image of the run got its page
C8_Witness ==
    /\ Finished
    /\ Len(stats.corruptedFiles) = 1
    /\ stats.skippedImages = 1
    /\ Len(Pages) = 1
    /\ ReadsBefore(stats.corruptedFiles[1].file, Pages[1].image)

\* tier 1 of a repair threw: the metadata decode, or the re-encode it asked for
Tier1Threw(env) ==
    \/ ~env.meta.ok
    \/ /\ \/ env.meta.isProgressive
          \/ env.meta.format = "webp"
          \/ env.meta.height > 10000
          \/ env.meta.width * env.meta.height > 50000000
       /\ ~env.encode

\* the placeholder tier threw: at fs.statSync or at the synthesis
PlaceholderThrew(env) == ~env.stat \/ ~env.synth

Mentions(error, message) == \E k \in 1..Len(error) : error[k] = message

(* C9: preprocessProblematicImage always returns; it returns success =     *)
(* false exactly when tier 1, the emergency tier and the placeholder tier  *)
(* have all thrown, and the error then carries the messages of the three;  *)
(* when tier 1 and the emergency tier throw and the placeholder tier goes  *)
(* through, the result is the 720x1000 placeholder written beside the      *)
(* image.                                                                  *)
C9_RepairFailsOnlyWhenAllTiersThrow ==
    pc = "repaired" =>
        LET env == cur.env
            allThrew == Tier1Threw(env) /\ ~env.tolerant /\ PlaceholderThrew(env)
        IN  /\ cur.pre.success = ~allThrew
            /\ allThrew =>
                  /\ cur.pre.fixedPath = NoPath
                  /\ Mentions(cur.pre.error,
                              IF env.meta.ok THEN ErrEncode ELSE ErrMetadata)
                  /\ Mentions(cur.pre.error, ErrTolerant)
                  /\ Mentions(cur.pre.error, IF env.stat THEN ErrSynth ELSE ErrStat)
                  /\ cur.written = {}
                  /\ FixedPath(ImagePath) \notin TempFilesOnDisk
                  /\ RecoveredPath(ImagePath) \notin TempFilesOnDisk
            /\ (Tier1Threw(env) /\ ~env.tolerant /\ ~PlaceholderThrew(env)) =>
                  /\ cur.pre.success
                  /\ cur.pre.reason = "Placeholder for corrupted image"
                  /\ cur.pre.fixedPath = <<ImagePath[1], ImagePath[2] \o DotRecoveredJpg>>
                  /\ cur.written = {[path |-> cur.pre.fixedPath, kind |-> "placeholder",
                                     width |-> 720, height |-> 1000]}
                  /\ cur.pre.fixedPath \in TempFilesOnDisk

\* a repair whose three tiers threw has returned its failure
C9_Witness ==
    /\ pc = "repaired"
    /\ ~cur.pre.success
    /\ cur.tiers = <<<<"normalize", "threw">>, <<"emergency", "threw">>,
                     <<"placeholder", "threw">>>>

\* the file under test starts with a complete JPEG, GIF or PNG signature
HasSignature(f) ==
    /\ f.off = 0
    /\ \/ StartsWith(f.bytes, <<255, 216, 255>>)
       \/ StartsWith(f.bytes, <<71, 73, 70>>)
       \/ StartsWith(f.bytes, <<137, 80, 78, 71>>)

(* C10: both validators classify by size before they look at the header: a *)
(* file of size 0 is invalid as 'Empty file (0 bytes)', a file of size     *)
(* 1..99 is invalid as 'File too small (likely corrupted)' whatever its    *)
(* leading bytes and whether or not it can be read, and a file of size >=  *)
(* 100 gets neither reason.  (The sizes are those fs.statSync reports.)    *)
C10_SizeBeforeHeader ==
    /\ (vout.pdfDone /\ vin.stat) =>
          /\ vin.size = 0 =>
                vout.pdf = [valid |-> FALSE, reason |-> <<"Empty file (0 bytes)">>]
          /\ (1 <= vin.size /\ vin.size <= 99) =>
                vout.pdf = [valid |-> FALSE,
                            reason |-> <<"File too small (likely corrupted)">>]
          /\ vin.size >= 100 =>
                /\ vout.pdf.reason # <<"Empty file (0 bytes)">>
                /\ vout.pdf.reason # <<"File too small (likely corrupted)">>
    /\ (vout.diagDone /\ vin.stat) =>
          /\ vin.size = 0 =>
                /\ ~vout.diag.valid
                /\ vout.diag.reason = <<"Empty file (0 bytes)">>
          /\ (1 <= vin.size /\ vin.size <= 99) =>
                /\ ~vout.diag.valid
                /\ vout.diag.reason = <<"File too small (likely corrupted)">>
                /\ vout.diag.size = vin.size
          /\ vin.size >= 100 =>
                /\ vout.diag.reason # <<"Empty file (0 bytes)">>
                /\ vout.diag.reason # <<"File too small (likely corrupted)">>

\* a 99-byte file that starts with the JPEG signature was judged too small
C10_Witness ==
    /\ vout.pdfDone
    /\ vout.diagDone
    /\ vin.stat /\ vin.read
    /\ vin.size = 99
    /\ vin.bytes = <<255, 216, 255>>
    /\ HasSignature(vin)
    /\ ~vout.pdf.valid

----------------------------------------------------------------------------
(* The header window: { start: 0, end: 10 } names the first 11 bytes.      *)

HeaderWindow == 11

\* the leading bytes of the file that lie inside the header window
WindowBytes(f) == SubSeq(Content(f), 1, Min(HeaderWindow, f.size))

\* the verdict the leading bytes alone call for
HeaderVerdict(f) ==
    \/ StartsWith(WindowBytes(f), <<255, 216, 255>>)
    \/ StartsWith(WindowBytes(f), <<137, 80, 78, 71>>)
    \/ StartsWith(WindowBytes(f), <<71, 73, 70>>)
    \/ Includes(WindowBytes(f), <<87, 69, 66, 80>>)

(* C11: for a readable file of size >= 100 both validators answer valid    *)
(* exactly when the leading bytes start with FF D8 FF, 89 50 4E 47 or      *)
(* 47 49 46, or 'WEBP' appears within the header window; bytes beyond the  *)
(* header window never influence the verdict.                              *)
C11_HeaderWindowDecides ==
    (vin.stat /\ vin.read /\ vin.size >= 100) =>
        /\ vout.pdfDone => vout.pdf.valid = HeaderVerdict(vin)
        /\ vout.diagDone => vout.diag.valid = HeaderVerdict(vin)

\* the step is a call of validateImageFile on a file the file system refuses
ValidatesRefusedFile ==
    /\ Len(calls') = Len(calls) + 1
    /\ calls'[Len(calls')].op = "validateImageFile"
    /\ LET f == calls'[Len(calls')].file
       IN  ~f.stat \/ (f.size >= 100 /\ ~f.read)

\* the message of the error the file system raised on f
AccessMessage(f) ==
    IF ~f.stat THEN "ENOENT: no such file or directory" ELSE "EACCES: permission denied"

(* C12: validateImageFile never raises.  When fs.statSync or               *)
(* fs.readFileSync fails on an image, the step of the assembler that       *)
(* validates it touches no file, adds no page, does not settle the         *)
(* promise, counts the image in skippedImages, appends one corruptedFiles  *)
(* record whose reason is 'File access error: ' followed by the message of *)
(* the error, and moves on to the next image, as for any invalid image.    *)
C12_AccessErrorIsInvalid ==
    [][ValidatesRefusedFile =>
          LET c == calls'[Len(calls')]
          IN  /\ fsys' = fsys
              /\ doc' = doc
              /\ stream' = stream
              /\ outcome' = outcome
              /\ pc' = "image"
              /\ ii' = ii + 1
              /\ cur' = NoCur
              /\ stats' = [stats EXCEPT
                              !.skippedImages = @ + 1,
                              !.corruptedFiles = Append(@,
                                  [file |-> c.image, chapter |-> c.image[1],
                                   reason |-> <<"File access error: ",
                                                AccessMessage(c.file)>>])]]_vars

\* an image whose file had vanished was recorded, and a later image got a page
C12_Witness ==
    /\ Finished
    /\ Len(stats.corruptedFiles) = 1
    /\ stats.corruptedFiles[1].reason =
          <<"File access error: ", "ENOENT: no such file or directory">>
    /\ Len(Pages) >= 1
    /\ ReadsBefore(stats.corruptedFiles[1].file, Pages[1].image)

----------------------------------------------------------------------------
(* The two sorts on their own: a root listing of folders and a chapter     *)
(* listing of files, in every enumeration order, with names that share a   *)
(* key, names without digits and names with several digit runs.            *)

MaxSort == 3

Extra == <<"e","x","t","r","a">>
Zero == <<"0">>
Vol02 == <<"v","0","2">>
A1b22 == <<"a","1","b","2","2">>

SortDirNames == {Ch2, Ch10, Extra, Zero, Vol02, A1b22}

Img02 == <<"0","2",".","p","n","g">>
Cover == <<"c","o","v","e","r",".","g","i","f">>
Notes7 == <<"7",".","t","x","t">>

SortFileNames == {Img2, Img10, Img02, Cover, Notes7}

InitSort ==
    /\ fsys \in {[root |-> [k \in 1..Len(q) |-> DirEntry(q[k])],
                  dirs |-> [n \in DirNames |-> IF n = Ch2 THEN l ELSE <<>>],
                  report |-> NoReport] :
                    q \in DistinctSeqs(SortDirNames, MaxSort),
                    l \in DistinctSeqs(SortFileNames, MaxSort)}
    /\ pc = "unsorted"
    /\ chapters = <<>>
    /\ ci = 0
    /\ images = <<>>
    /\ ii = 0
    /\ stats = InitStats
    /\ doc = [created |-> FALSE, pages |-> <<>>, ended |-> FALSE]
    /\ stream = "none"
    /\ cur = NoCur
    /\ calls = <<>>
    /\ outcome = NoOutcome
    /\ vin = NoFile
    /\ vout = NoVerdicts
    /\ replay = NoReplay
    /\ crawl = NoCrawl
    /\ server = NoServer

\* const chapters = fs.readdirSync(mangaFolderPath).filter(...).sort(...)
SortChapters ==
    /\ pc = "unsorted"
    /\ chapters' = ChapterFolders(fsys.root)
    /\ pc' = "chapters"
    /\ UNCHANGED <<fsys, ci, images, ii, stats, doc, stream, cur, calls, outcome, vin, vout, replay, crawl, server>>

\* const images = fs.readdirSync(chapterPath).filter(...).sort(...)
SortImages ==
    /\ pc = "chapters"
    /\ images' = ChapterImages(fsys.dirs[Ch2])
    /\ pc' = "images"
    /\ UNCHANGED <<fsys, chapters, ci, ii, stats, doc, stream, cur, calls, outcome, vin, vout, replay, crawl, server>>

NextSort == SortChapters \/ SortImages

SpecSort == InitSort /\ [][NextSort]_vars

\* the integer written by the first run of digits of a name, 0 without digits
FirstInteger(name) ==
    LET digits == {k \in 1..Len(name) : name[k] \in {"0","1","2","3","4","5","6","7","8","9"}}
    IN  IF digits = {} THEN 0
        ELSE LET a == CHOOSE k \in digits : \A j \in digits : k <= j
                 b == CHOOSE k \in digits :
                         /\ \A j \in a..k : j \in digits
                         /\ (k + 1) \notin digits
                 val[k \in (a - 1)..b] ==
                     IF k = a - 1 THEN 0 ELSE 10 * val[k - 1] + DigitValue[name[k]]
             IN  val[b]

\* out is the listing in, of distinct names, stably sorted by FirstInteger
IsStableSortOf(out, in) ==
    /\ Len(out) = Len(in)
    /\ {out[k] : k \in 1..Len(out)} = {in[k] : k \in 1..Len(in)}
    /\ \A i, j \in 1..Len(out) :
          i < j => \/ FirstInteger(out[i]) < FirstInteger(out[j])
                   \/ /\ FirstInteger(out[i]) = FirstInteger(out[j])
                      /\ NamePos(in, out[i]) < NamePos(in, out[j])

(* C13: the chapters, and the images of a chapter, are in ascending order   *)
(* of the integer value of the first run of digits of their name, a name   *)
(* without digits counting as 0, and names of equal key stay in the order  *)
(* in which the directory enumerated them.                                 *)
C13_StableNumericOrder ==
    /\ pc \in {"chapters", "images"} =>
          IsStableSortOf(chapters, [k \in 1..Len(fsys.root) |-> fsys.root[k].name])
    /\ pc = "images" =>
          IsStableSortOf(images, SelectSeq(fsys.dirs[Ch2], IsInputImage))

\* v02 and ch-2 share key 2 and kept their order, ch-10 follows them; the
\* image without digits leads, 02.png precedes 10.PNG
C13_Witness ==
    /\ pc = "images"
    /\ fsys.root = <<DirEntry(Ch10), DirEntry(Vol02), DirEntry(Ch2)>>
    /\ chapters = <<Vol02, Ch2, Ch10>>
    /\ fsys.dirs[Ch2] = <<Img10, Img02, Cover>>
    /\ images = <<Cover, Img02, Img10>>

----------------------------------------------------------------------------
(* C14: a second run of createMangaPDF on the folder the first run left,   *)
(* with the same output name and the same outcome for each image, lists    *)
(* the same chapters and only images the first run listed (neither the     *)
(* PDF, nor the report, nor a leftover temporary file), and completes with *)
(* the statistics of the first run: the same four counters and the same    *)
(* corruptedFiles, fixedFiles and errorDetails records, in the report too. *)
C14_SecondRunSameStatistics ==
    replay.run = 2 =>
        /\ pc # "start" => chapters = replay.chapters
        /\ \A k \in 1..Len(chapters) :
              chapters[k] # OutputFileName /\ chapters[k] # ReportFileName
        /\ pc \in {"image", "direct", "repair", "repaired"} =>
              \A k \in 1..Len(images) :
                  /\ <<chapters[ci], images[k]>> \in DOMAIN replay.fate
                  /\ ~IsTempName(images[k])
        /\ pc = "resolved" =>
              /\ stats = replay.stats
              /\ outcome.stats = replay.stats
              /\ fsys.report = ReportOf(replay.stats)

\* the second run has completed on a folder in which the first run left the
\* PDF, the report and a temporary file of an image whose retry raised
C14_Witness ==
    /\ replay.run = 2
    /\ pc = "resolved"
    /\ TempFilesOnDisk # {}
    /\ InRoot(fsys.root, OutputFileName)
    /\ InRoot(fsys.root, ReportFileName)
    /\ stats.totalImages = 1
    /\ Len(stats.errorDetails) = 1

----------------------------------------------------------------------------
(* scrapeManga (puppeteer-scrape.js): the crawl loop.  A chapter URL is a   *)
(* number of 1..MaxChapters and NoUrl is the null a page without a next    *)
(* link yields.  One step is one iteration: the awaited scrapeChapter      *)
(* returns a next URL or throws, then the loop condition is tested.        *)

maxErrors == 3
MaxChapters == 3
MaxAttempts == 5

NoUrl == 0
StartUrl == 1

\* the variables of the PDF assembler, at rest while the crawler runs
AssemblerVars ==
    <<fsys, pc, chapters, ci, images, ii, stats, doc, stream, cur, calls, outcome,
      vin, vout, replay>>

AssemblerIdle ==
    /\ fsys = [root |-> <<>>, dirs |-> [n \in DirNames |-> <<>>], report |-> NoReport]
    /\ pc = "idle"
    /\ chapters = <<>>
    /\ ci = 0
    /\ images = <<>>
    /\ ii = 0
    /\ stats = InitStats
    /\ doc = [created |-> FALSE, pages |-> <<>>, ended |-> FALSE]
    /\ stream = "none"
    /\ cur = NoCur
    /\ calls = <<>>
    /\ outcome = NoOutcome
    /\ vin = NoFile
    /\ vout = NoVerdicts
    /\ replay = NoReplay

InitCrawl ==
    /\ AssemblerIdle
    /\ server = NoServer
    /\ crawl = [pc |-> "loop", currentUrl |-> StartUrl, errorCount |-> 0,
                chaptersDownloaded |-> 0, attempts |-> <<>>]

\* while (currentUrl && errorCount < maxErrors)
LoopContinues(c) == c.currentUrl # NoUrl /\ c.errorCount < maxErrors

Attempt(url, ok, next) == [url |-> url, ok |-> ok, next |-> next]

\* a success that leaves the failure counter as it is
ScrapeSucceedsNoReset(nextUrl) ==
    /\ crawl.pc = "loop"
    /\ Len(crawl.attempts) < MaxAttempts
    /\ LET c == [crawl EXCEPT
                    !.chaptersDownloaded = @ + 1,
                    !.attempts = Append(@, Attempt(crawl.currentUrl, TRUE, nextUrl))]
       IN  IF nextUrl = crawl.currentUrl \/ nextUrl = NoUrl
           THEN crawl' = [c EXCEPT !.pc = "closing"]
           ELSE crawl' = [c EXCEPT !.currentUrl = nextUrl,
                                   !.pc = IF LoopContinues([c EXCEPT !.currentUrl = nextUrl])
                                          THEN "loop" ELSE "closing"]
    /\ UNCHANGED <<AssemblerVars, server>>

\* scrapeChapter returned nextUrl: count the chapter, stop or advance
ScrapeSucceeds(nextUrl) ==
    /\ crawl.pc = "loop"
    /\ Len(crawl.attempts) < MaxAttempts
    /\ LET c == [crawl EXCEPT
                    !.chaptersDownloaded = @ + 1,
                    !.attempts = Append(@, Attempt(crawl.currentUrl, TRUE, nextUrl))]
       IN  IF nextUrl = crawl.currentUrl \/ nextUrl = NoUrl
           THEN crawl' = [c EXCEPT !.pc = "closing"]
           ELSE LET d == [c EXCEPT !.currentUrl = nextUrl, !.errorCount = 0]
                IN  crawl' = [d EXCEPT !.pc = IF LoopContinues(d) THEN "loop" ELSE "closing"]
    /\ UNCHANGED <<AssemblerVars, server>>

\* scrapeChapter threw: count the failure, the URL stays
ScrapeFails ==
    /\ crawl.pc = "loop"
    /\ Len(crawl.attempts) < MaxAttempts
    /\ LET c == [crawl EXCEPT
                    !.errorCount = @ + 1,
                    !.attempts = Append(@, Attempt(crawl.currentUrl, FALSE, NoUrl))]
       IN  crawl' = [c EXCEPT !.pc = IF LoopContinues(c) THEN "loop" ELSE "closing"]
    /\ UNCHANGED <<AssemblerVars, server>>

\* await browser.close()
CloseBrowser ==
    /\ crawl.pc = "closing"
    /\ crawl' = [crawl EXCEPT !.pc = "closed"]
    /\ UNCHANGED <<AssemblerVars, server>>

NextCrawl ==
    \/ \E nextUrl \in 0..MaxChapters : ScrapeSucceeds(nextUrl)
    \/ ScrapeFails
    \/ CloseBrowser

SpecCrawl == InitCrawl /\ [][NextCrawl]_vars

\* the attempts made so far, and the last one that advanced to a new URL
Attempts == crawl.attempts

Advanced(k) ==
    Attempts[k].ok /\ Attempts[k].next # 0 /\ Attempts[k].next # Attempts[k].url

LastAdvance ==
    IF \E k \in 1..Len(Attempts) : Advanced(k)
    THEN CHOOSE k \in 1..Len(Attempts) :
            Advanced(k) /\ \A j \in (k + 1)..Len(Attempts) : ~Advanced(j)
    ELSE 0

CrawlStopped == crawl.pc \in {"closing", "closed"}

(* C15: the crawl loop starts at the start URL, retries a failed attempt   *)
(* on the same URL and goes to the next link after a success; it has       *)
(* stopped exactly when the last attempt yielded no next link or a link to *)
(* the current URL, or when the last 3 attempts all failed; the failure    *)
(* counter counts the failures since the last success that advanced, so    *)
(* failures that are not consecutive never exhaust the budget.             *)
C15_CrawlStopsOnEndOrThreeFailures ==
    LET n == Len(Attempts)
    IN  /\ n > 0 => Attempts[1].url = 1
        /\ \A k \in 1..(n - 1) :
              Attempts[k + 1].url =
                  IF Attempts[k].ok THEN Attempts[k].next ELSE Attempts[k].url
        /\ CrawlStopped <=>
              /\ n > 0
              /\ \/ Attempts[n].ok /\ Attempts[n].next \in {0, Attempts[n].url}
                 \/ n >= 3 /\ \A k \in (n - 2)..n : ~Attempts[k].ok
        /\ crawl.errorCount =
              Cardinality({k \in (LastAdvance + 1)..n : ~Attempts[k].ok})
        /\ crawl.chaptersDownloaded = Cardinality({k \in 1..n : Attempts[k].ok})
        /\ ~CrawlStopped => crawl.currentUrl =
              IF n = 0 THEN 1
              ELSE IF Attempts[n].ok THEN Attempts[n].next ELSE Attempts[n].url

\* three failures, not consecutive, and the loop is still running: two on
\* the start URL, a success that advanced, one more on the new URL
C15_Witness ==
    /\ crawl.pc = "loop"
    /\ Len(Attempts) = 4
    /\ ~Attempts[1].ok /\ ~Attempts[2].ok
    /\ Advanced(3)
    /\ ~Attempts[4].ok
    /\ Attempts[4].url = Attempts[3].next
    /\ crawl.errorCount = 1

----------------------------------------------------------------------------
(* The Express handlers of server.js.  A request is a route and a JSON     *)
(* body, a field that is absent (or empty) being "".  `started' lists the  *)
(* operations the handler has called, `raised' is the message of the error *)
(* an awaited operation rejected with, `responses' what was sent.          *)

MaxUrls == 2

Routes == {"/scrape", "/create-pdf"}

Bodies ==
    [url : {"", "https://example.org/chapter-1"},
     folder : {"", "chapter-1"},
     mangaFolder : {"", "downloads/manga"},
     outputName : {"", "out.pdf"},
     type : {"", "chapter", "manga"}]

OperationErrors ==
    {"Request failed with status code 404",
     "No chapters found in the manga folder",
     "No images found in the chapter folder"}

InitServer ==
    /\ AssemblerIdle
    /\ crawl = NoCrawl
    /\ server \in [phase : {"received"}, route : Routes, body : Bodies,
                   started : {<<>>}, images : {0}, raised : {""}, responses : {<<>>}]

\* res.status(code).json({ error })
RespondError(sv, code, message) ==
    [sv EXCEPT !.phase = "done",
               !.responses = Append(@, [status |-> code, error |-> message, message |-> ""])]

\* res.json({ message, ... }): status 200
RespondOk(sv, message) ==
    [sv EXCEPT !.phase = "done",
               !.responses = Append(@, [status |-> 200, error |-> "", message |-> message])]

Started(sv, operation, argument) ==
    [sv EXCEPT !.started = Append(@, [operation |-> operation, argument |-> argument])]

\* POST /scrape without the return after the 400
HandleScrapeFallThrough ==
    /\ server.phase = "received"
    /\ server.route = "/scrape"
    /\ IF server.body.url = ""
       THEN server' = [Started(RespondError(server, 400, "URL is required"),
                               "scrapeMangaImages", server.body.url)
                          EXCEPT !.phase = "scraping"]
       ELSE server' = [Started(server, "scrapeMangaImages", server.body.url)
                          EXCEPT !.phase = "scraping"]
    /\ UNCHANGED <<AssemblerVars, crawl>>

\* POST /scrape: 400 without a url, otherwise await scrapeMangaImages(url)
HandleScrape ==
    /\ server.phase = "received"
    /\ server.route = "/scrape"
    /\ IF server.body.url = ""
       THEN server' = RespondError(server, 400, "URL is required")
       ELSE server' = [Started(server, "scrapeMangaImages", server.body.url)
                          EXCEPT !.phase = "scraping"]
    /\ UNCHANGED <<AssemblerVars, crawl>>

\* scrapeMangaImages resolved with n URLs: await downloadImages(images, folder || ...)
ScrapeResolves(n) ==
    /\ server.phase = "scraping"
    /\ server' = [Started(server, "downloadImages",
                          IF server.body.folder = "" THEN "chapter-images"
                          ELSE server.body.folder)
                     EXCEPT !.phase = "downloading", !.images = n]
    /\ UNCHANGED <<AssemblerVars, crawl>>

\* downloadImages resolved: res.json({ message: `Downloaded ${images.length} images.` })
DownloadResolves ==
    /\ server.phase = "downloading"
    /\ server' = RespondOk(server, "Downloaded n images.")
    /\ UNCHANGED <<AssemblerVars, crawl>>

\* POST /create-pdf: 400 without mangaFolder, otherwise await the PDF operation
HandleCreatePdf ==
    /\ server.phase = "received"
    /\ server.route = "/create-pdf"
    /\ IF server.body.mangaFolder = ""
       THEN server' = RespondError(server, 400, "mangaFolder path is required")
       ELSE server' = [Started(server,
                               IF server.body.type = "chapter"
                               THEN "createChapterPDF" ELSE "createMangaPDF",
                               server.body.mangaFolder)
                          EXCEPT !.phase = "building"]
    /\ UNCHANGED <<AssemblerVars, crawl>>

\* the PDF operation resolved: res.json({ message, pdfPath })
PdfResolves ==
    /\ server.phase = "building"
    /\ server' = RespondOk(server, "PDF created successfully")
    /\ UNCHANGED <<AssemblerVars, crawl>>

\* the awaited operation rejected: catch (err), res.status(500).json({ error: err.message })
OperationRejects(message) ==
    /\ server.phase \in {"scraping", "downloading", "building"}
    /\ server' = RespondError([server EXCEPT !.raised = message], 500, message)
    /\ UNCHANGED <<AssemblerVars, crawl>>

NextServer ==
    \/ HandleScrape
    \/ \E n \in 0..MaxUrls : ScrapeResolves(n)
    \/ DownloadResolves
    \/ HandleCreatePdf
    \/ PdfResolves
    \/ \E message \in OperationErrors : OperationRejects(message)

\* each awaited operation settles and the handler's continuation then runs
SpecServer == InitServer /\ [][NextServer]_vars /\ WF_vars(NextServer)

\* the field the route requires is missing from the body
RequiredMissing ==
    \/ server.route = "/scrape" /\ server.body.url = ""
    \/ server.route = "/create-pdf" /\ server.body.mangaFolder = ""

(* C16: a request to POST /scrape or POST /create-pdf gets exactly one     *)
(* response: never two, and one in the end.  Without the required field    *)
(* (url, mangaFolder) it is a 400 with one error message and no operation  *)
(* was started; otherwise it is a 2xx with a summary exactly when no       *)
(* operation raised, and a 500 with the raised error's message when one    *)
(* did.                                                                    *)
C16_OneResponsePerRequest ==
    /\ [](/\ Len(server.responses) <= 1
          /\ server.phase = "done" <=> Len(server.responses) = 1
          /\ RequiredMissing => server.started = <<>>
          /\ server.phase = "done" =>
                LET r == server.responses[1]
                IN  /\ RequiredMissing =>
                          /\ r.status = 400
                          /\ r.error = IF server.route = "/scrape"
                                       THEN "URL is required"
                                       ELSE "mangaFolder path is required"
                    /\ ~RequiredMissing =>
                          /\ (r.status \in 200..299) <=> server.raised = ""
                          /\ server.raised = "" => r.message # "" /\ r.error = ""
                          /\ server.raised # "" =>
                                r.status = 500 /\ r.error = server.raised /\ r.message = "")
    /\ <>(server.phase = "done")

\* a create-pdf request of type chapter got the 500 of a chapter without images
C16_Witness ==
    /\ server.phase = "done"
    /\ server.route = "/create-pdf"
    /\ server.body.type = "chapter"
    /\ server.started = <<[operation |-> "createChapterPDF",
                           argument |-> "downloads/manga"]>>
    /\ server.responses = <<[status |-> 500,
                             error |-> "No images found in the chapter folder",
                             message |-> ""]>>

----------------------------------------------------------------------------
\* the calls of one operation made for one image
CallsFor(op, image) == {k \in CallsOf(op) : calls[k].image = image}

\* the image was drawn from its own file: direct composition did not raise
DrawnDirectly(image) == \E k \in PagesOf(image) : Pages[k].drawn = image

\* the retries: doc.image on another path than the image's own
Retries(image) == {k \in CallsFor("doc.image", image) : calls[k].path # image}

\* the records of images whose retry raised in doc.image
RetryRaised ==
    {k \in 1..Len(stats.errorDetails) :
        /\ stats.errorDetails[k].error.prefix = "Post-fix error: "
        /\ stats.errorDetails[k].error.message = "Unknown image format."}

\* the images that have been dealt with completely
Processed ==
    IF pc \in {"direct", "repair", "repaired"}
    THEN ValidatedImages \ {ImagePath}
    ELSE ValidatedImages

(* C17: for an image that passed validation the repair engine is called    *)
(* exactly when direct composition raised, and then once; composition is   *)
(* retried at most once, on the path the repair returned; and when the     *)
(* retry raises too, a page of that image carries a text that states the   *)
(* file name, the chapter and the error message.                           *)
C17_RepairOnceRetryOncePlaceholderText ==
    /\ \A image \in Processed :
          /\ Cardinality(CallsFor("preprocessProblematicImage", image))
                = IF DrawnDirectly(image) THEN 0 ELSE 1
          /\ Cardinality(Retries(image)) <= 1
          /\ \A k \in Retries(image) :
                /\ calls[k].path \in {FixedPath(image), RecoveredPath(image)}
                /\ \E j \in CallsFor("preprocessProblematicImage", image) : j < k
    /\ pc = "repair" => CallsFor("preprocessProblematicImage", ImagePath) = {}
    /\ \A k \in RetryRaised :
          LET e == stats.errorDetails[k]
          IN  \E i \in PagesOf(e.file) :
                 /\ Pages[i].text.file = e.file[2]
                 /\ Pages[i].text.chapter = e.chapter
                 /\ Pages[i].text.error = e.error.message

----------------------------------------------------------------------------
\* the place of a tier in the chain
TierRank(tier) ==
    CASE tier = "normalize" -> 1
      [] tier = "emergency" -> 2
      [] tier = "placeholder" -> 3

(* C18: the tiers one call of the repair engine ran are in strict order:   *)
(* it starts with tier 1 (metadata decode, normalize re-encode), each      *)
(* further tier is the next of the chain and is entered only after the     *)
(* tier before it has thrown, so no tier runs twice and none runs after a  *)
(* tier that succeeded or passed through; the emergency tier runs exactly  *)
(* when tier 1 threw, the placeholder tier exactly when both threw.        *)
C18_TiersStrictlyOrdered ==
    pc = "repaired" =>
        LET t == cur.tiers
        IN  /\ Len(t) \in 1..3
            /\ t[1][1] = "normalize"
            /\ \A k \in 1..Len(t) : t[k][2] \in {"ok", "pass", "threw"}
            /\ \A k \in 2..Len(t) :
                  /\ TierRank(t[k][1]) = TierRank(t[k - 1][1]) + 1
                  /\ t[k - 1][2] = "threw"
            /\ (t[1][2] = "threw") <=> Tier1Threw(cur.env)
            /\ Len(t) >= 2 <=> Tier1Threw(cur.env)
            /\ Len(t) = 3 <=> (Tier1Threw(cur.env) /\ ~cur.env.tolerant)
            /\ Len(t) = 3 => (t[3][2] = "threw" <=> PlaceholderThrew(cur.env))

\* a repair went through the three tiers and ended with the placeholder
C18_Witness ==
    /\ pc = "repaired"
    /\ cur.tiers = <<<<"normalize", "threw">>, <<"emergency", "threw">>,
                     <<"placeholder", "ok">>>>
    /\ cur.pre.success

----------------------------------------------------------------------------
\* the step records the current image as a per-image error
RecordsError ==
    /\ stats'.skippedImages = stats.skippedImages + 1
    /\ Len(stats'.errorDetails) = Len(stats.errorDetails) + 1
    /\ SubSeq(stats'.errorDetails, 1, Len(stats.errorDetails)) = stats.errorDetails
    /\ stats'.errorDetails[Len(stats'.errorDetails)].file = ImagePath

\* the step leaves the error statistics alone
RecordsNoError ==
    /\ stats'.skippedImages = stats.skippedImages
    /\ stats'.errorDetails = stats.errorDetails

\* every tier the repair ran threw
AllTiersFailed == \A k \in 1..Len(cur.tiers) : cur.tiers[k][2] = "threw"

\* some tier reported success: a repaired file, or nothing to repair
SomeTierSucceeded == \E k \in 1..Len(cur.tiers) : cur.tiers[k][2] \in {"ok", "pass"}

\* the repair returned a path to retry with
UsablePath == cur.pre.success /\ cur.pre.fixedPath # NoPath

\* after the step the document shows the repaired file and the file is gone
RetriedAndCleaned ==
    /\ \E k \in 1..Len(doc'.pages) :
          doc'.pages[k].image = ImagePath /\ doc'.pages[k].drawn = cur.pre.fixedPath
    /\ \A k \in 1..Len(fsys'.dirs[cur.pre.fixedPath[1]]) :
          fsys'.dirs[cur.pre.fixedPath[1]][k] # cur.pre.fixedPath[2]

(* C19, as stated: the step that follows a repair records the image as a   *)
(* per-image error (skippedImages incremented, an errorDetails entry) only *)
(* if every tier of the repair failed, and records nothing whenever some   *)
(* tier reported success.                                                  *)
C19_ErrorOnlyIfEveryTierFailed ==
    [][pc = "repaired" =>
          /\ RecordsError => AllTiersFailed
          /\ SomeTierSucceeded => RecordsNoError]_vars

(* C19, amended: the step that follows a repair either records the image   *)
(* as a per-image error or leaves the error statistics alone; it records   *)
(* it when the repair returned no path to retry with (every tier failed,   *)
(* or tier 1 passed the image through unchanged) and when the retry block  *)
(* raised (drawing the repaired file, or deleting it), with 'Post-fix      *)
(* error: ' in front of the message in the latter case; it records nothing *)
(* exactly when the repaired file was drawn and deleted.  The repair       *)
(* reports failure exactly when every tier failed.                         *)
C19_ErrorUnlessRepairedAndRetried ==
    [][pc = "repaired" =>
          /\ RecordsError \/ RecordsNoError
          /\ cur.pre.success <=> SomeTierSucceeded
          /\ ~cur.pre.success <=> AllTiersFailed
          /\ ~UsablePath => RecordsError
          /\ RecordsNoError <=> (UsablePath /\ RetriedAndCleaned)
          /\ RecordsError =>
                stats'.errorDetails[Len(stats'.errorDetails)].error.prefix
                    = IF UsablePath THEN "Post-fix error: " ELSE ""]_vars

\* an image whose repair succeeded was recorded as an error after its retry
\* raised, and the run went on to its end
C19_Witness ==
    /\ Finished
    /\ Len(stats.errorDetails) = 1
    /\ stats.errorDetails[1].error.prefix = "Post-fix error: "
    /\ stats.skippedImages = 1
    /\ Retries(stats.errorDetails[1].file) # {}

----------------------------------------------------------------------------
(* C20: the placeholder tier depends on canvas synthesis alone: whenever   *)
(* it is entered and synthesizing and writing the 720x1000 gray image goes *)
(* through, it returns success with reason 'Placeholder for corrupted      *)
(* image', whatever the state of the input file (fs.statSync on it may     *)
(* fail: deleted, inaccessible).                                           *)
C20_PlaceholderNeedsOnlySynthesis ==
    (pc = "repaired" /\ Len(cur.tiers) = 3 /\ cur.env.synth) =>
        /\ cur.tiers[3] = <<"placeholder", "ok">>
        /\ cur.pre.success
        /\ cur.pre.reason = "Placeholder for corrupted image"
        /\ cur.written = {[path |-> RecoveredPath(ImagePath), kind |-> "placeholder",
                           width |-> 720, height |-> 1000]}

----------------------------------------------------------------------------
(* The repair engine on its own: preprocessProblematicImage applied to one *)
(* image, over metadata on both sides of each threshold and every answer   *)
(* of the decoder.                                                         *)

RepairImage == <<Ch2, Img2>>

RepairWidths == {1, 800, 5000, 5001}
RepairHeights == {1, 1200, 8000, 8001, 10000, 10001, 15000}

RepairMetas ==
    [ok : {TRUE}, isProgressive : BOOLEAN, format : {"jpeg", "png", "webp"},
     width : RepairWidths, height : RepairHeights]
        \cup {[ok |-> FALSE, isProgressive |-> FALSE, format |-> "jpeg",
               width |-> 800, height |-> 1200]}

RepairEnvs ==
    [meta : RepairMetas, encode : BOOLEAN, tolerant : BOOLEAN, stat : BOOLEAN,
     synth : BOOLEAN]

InitRepair ==
    /\ cur \in {[NoCur EXCEPT
                    !.file = [stat |-> TRUE, read |-> TRUE, size |-> 100, off |-> 0,
                              bytes |-> <<255, 216, 255>>],
                    !.env = e] : e \in RepairEnvs}
    /\ fsys = [root |-> <<DirEntry(Ch2)>>,
               dirs |-> [n \in DirNames |-> IF n = Ch2 THEN <<Img2>> ELSE <<>>],
               report |-> NoReport]
    /\ pc = "tier1"
    /\ chapters = <<>>
    /\ ci = 0
    /\ images = <<>>
    /\ ii = 0
    /\ stats = InitStats
    /\ doc = [created |-> FALSE, pages |-> <<>>, ended |-> FALSE]
    /\ stream = "none"
    /\ calls = <<>>
    /\ outcome = NoOutcome
    /\ vin = NoFile
    /\ vout = NoVerdicts
    /\ replay = NoReplay
    /\ crawl = NoCrawl
    /\ server = NoServer

\* await preprocessProblematicImage(imagePath)
Preprocess ==
    /\ pc = "tier1"
    /\ LET r == preprocessProblematicImage(RepairImage, cur.file, cur.env)
       IN  /\ cur' = [cur EXCEPT !.pre = r.result, !.tiers = r.tiers,
                                  !.written = r.written]
           /\ fsys' = [fsys EXCEPT !.dirs = WriteAll(@, r.written)]
    /\ pc' = "preprocessed"
    /\ UNCHANGED <<chapters, ci, images, ii, stats, doc, stream, calls, outcome, vin,
                   vout, replay, crawl, server>>

NextRepair == Preprocess

SpecRepair == InitRepair /\ [][NextRepair]_vars

\* the image tier 1 was given, once sharp has read its metadata
Preprocessed == pc = "preprocessed" /\ cur.env.meta.ok

\* tier 1 ran the re-encode: it wrote the fixed file or threw on the way
Reencoded == cur.tiers[1] \in {<<"normalize", "ok">>, <<"normalize", "threw">>}

\* the four predicates, with their numbers written out
Fires(m) ==
    <<m.isProgressive, m.format = "webp", m.height >= 10001,
      m.width * m.height >= 50000001>>

FirstFired(m) == CHOOSE k \in 1..4 : Fires(m)[k] /\ \A j \in 1..(k - 1) : ~Fires(m)[j]

ReasonNames ==
    <<"Progressive JPEG", "WebP format", "Very tall image", "Very large image">>

(* C21: tier 1 re-encodes if and only if one of the four predicates holds  *)
(* (progressive; format webp; height > 10000; width * height > 50000000),  *)
(* the thresholds being strict; otherwise it answers success with no fixed *)
(* path and writes nothing; when the re-encode goes through, the reason is *)
(* the first predicate that holds, in the order progressive, WebP, very    *)
(* tall, very large, and the fixed path is the image's path + '.fixed.jpg'.*)
C21_Tier1FiresOnFourPredicates ==
    Preprocessed =>
        LET m == cur.env.meta
            fired == \E k \in 1..4 : Fires(m)[k]
        IN  /\ Reencoded <=> fired
            /\ ~fired =>
                  /\ cur.tiers = <<<<"normalize", "pass">>>>
                  /\ cur.pre.success
                  /\ cur.pre.fixedPath = NoPath
                  /\ cur.written = {}
            /\ cur.tiers = <<<<"normalize", "ok">>>> =>
                  /\ cur.pre.success
                  /\ cur.pre.fixedPath = <<Ch2, Img2 \o DotFixedJpg>>
                  /\ cur.pre.reason = ReasonNames[FirstFired(m)]

\* a non-progressive WebP image 10001 high, above the pixel threshold as well,
\* was re-encoded and the reason names the WebP predicate, first of the three
C21_Witness ==
    /\ Preprocessed
    /\ ~cur.env.meta.isProgressive
    /\ cur.env.meta.format = "webp"
    /\ cur.env.meta.height = 10001
    /\ cur.env.meta.width = 5001
    /\ cur.tiers = <<<<"normalize", "ok">>>>
    /\ cur.pre.reason = "WebP format"

\* the file tier 1 wrote, when its re-encode went through
Normalized == CHOOSE f \in cur.written : f.kind = "normalized"

Abs(x) == IF x < 0 THEN -x ELSE x

(* C22: for every input that triggers tier 1 (width w, height h) and is    *)
(* re-encoded, the output is the baseline JPEG at path + '.fixed.jpg', has  *)
(* width equal to w and height <= min(h, 8000), and keeps the aspect ratio *)
(* w : h (up to the rounding of one side to a whole pixel); in particular  *)
(* for inputs taller than 8000.                                            *)
C22_Tier1KeepsWidthCapsHeight ==
    (Preprocessed /\ cur.tiers = <<<<"normalize", "ok">>>>) =>
        LET w == cur.env.meta.width
            h == cur.env.meta.height
        IN  /\ cur.written = {Normalized}
            /\ Normalized.path = <<Ch2, Img2 \o DotFixedJpg>>
            /\ Normalized.width = w
            /\ Normalized.height <= (IF h < 8000 THEN h ELSE 8000)
            /\ 2 * Abs(Normalized.width * h - Normalized.height * w)
                  <= (IF w < h THEN h ELSE w)

----------------------------------------------------------------------------
(* The chapter listing and the names the repair engine adds to it: the     *)
(* filter of createMangaPDF over a chapter folder holding source images,   *)
(* other files and temporary files, listed again after the engine has left *)
(* a temporary file next to an image.                                      *)

MaxListing == 2
MaxLeft == 1

Scan1 == <<"1",".","f","i","x","e","d",".","p","n","g">>
Page3 == <<"3",".","c","o","n","v","e","r","t","e","d",".","j","p","g">>
Left4 == <<"4",".","g","i","f">> \o DotRecoveredJpg

ListingNames == {Img2, Img10, Notes7, Scan1, Page3, Left4}

InitListing ==
    /\ fsys \in {[root |-> <<DirEntry(Ch2)>>,
                  dirs |-> [n \in DirNames |-> IF n = Ch2 THEN l ELSE <<>>],
                  report |-> NoReport] :
                    l \in DistinctSeqs(ListingNames, MaxListing)}
    /\ pc = "chapters"
    /\ chapters = <<Ch2>>
    /\ ci = 0
    /\ images = <<>>
    /\ ii = 0
    /\ stats = InitStats
    /\ doc = [created |-> FALSE, pages |-> <<>>, ended |-> FALSE]
    /\ stream = "none"
    /\ cur = NoCur
    /\ calls = <<>>
    /\ outcome = NoOutcome
    /\ vin = NoFile
    /\ vout = NoVerdicts
    /\ replay = NoReplay
    /\ crawl = NoCrawl
    /\ server = NoServer

\* const outputPath = imagePath + '.fixed.jpg' / imagePath + '.recovered.jpg',
\* written next to an enumerated image and still there at the next listing
LeaveTemporary ==
    /\ pc = "images"
    /\ Len(calls) < MaxLeft
    /\ \E k \in 1..Len(images) :
       \E p \in {FixedPath(<<Ch2, images[k]>>), RecoveredPath(<<Ch2, images[k]>>)} :
          /\ fsys' = [fsys EXCEPT !.dirs[Ch2] = WithName(@, p[2])]
          /\ calls' = Append(calls, Call("toFile", <<Ch2, images[k]>>, p, NoFile))
    /\ pc' = "chapters"
    /\ UNCHANGED <<chapters, ci, images, ii, stats, doc, stream, cur, outcome, vin, vout,
                   replay, crawl, server>>

NextListing == SortImages \/ LeaveTemporary

SpecListing == InitListing /\ [][NextListing]_vars

Listed == {fsys.dirs[Ch2][k] : k \in 1..Len(fsys.dirs[Ch2])}
Enumerated == {images[k] : k \in 1..Len(images)}

(* C23: the image set of a chapter is exactly the files whose name ends,   *)
(* case-insensitively, in .jpg, .jpeg, .png, .gif or .webp and that are    *)
(* not intermediate artifacts (names ending in '.fixed.jpg' or             *)
(* '.recovered.jpg'): no temporary name of the engine is enumerated and no *)
(* source image is excluded by the artifact filter.                        *)
C23_ImageSetIsSourcesOnly ==
    pc = "images" =>
        Enumerated = {n \in Listed : HasImageExtension(n) /\ ~IsTempName(n)}

----------------------------------------------------------------------------
(* The statistics lists at completion.                                     *)

FixedOriginals == {stats.fixedFiles[k].original : k \in 1..Len(stats.fixedFiles)}

\* the images the loop has enumerated
EnumeratedImages == {calls[k].image : k \in CallsOf("validateImageFile")}

\* no image is named by two entries of the list (key: the field naming it)
NoRepeat(list, Key(_)) ==
    \A a, b \in 1..Len(list) : a # b => Key(list[a]) # Key(list[b])

FileOf(entry) == entry.file
OriginalOf(entry) == entry.original

(* C24: at completion the lists agree with the counters and every image    *)
(* has exactly one recorded outcome: fixedImages = |fixedFiles|,           *)
(* skippedImages = |corruptedFiles| + |errorDetails|, no image is in more  *)
(* than one of fixedFiles, corruptedFiles, errorDetails nor twice in one   *)
(* of them, and every repaired or skipped image (every enumerated image    *)
(* not drawn from its own file) is in one of them, with its reason.        *)
C24_ListsAgreeOneOutcomePerImage ==
    Finished =>
        /\ stats.fixedImages = Len(stats.fixedFiles)
        /\ stats.skippedImages = Len(stats.corruptedFiles) + Len(stats.errorDetails)
        /\ NoRepeat(stats.fixedFiles, OriginalOf)
        /\ NoRepeat(stats.corruptedFiles, FileOf)
        /\ NoRepeat(stats.errorDetails, FileOf)
        /\ FixedOriginals \cap Recorded(stats.corruptedFiles) = {}
        /\ FixedOriginals \cap Recorded(stats.errorDetails) = {}
        /\ Recorded(stats.corruptedFiles) \cap Recorded(stats.errorDetails) = {}
        /\ \A image \in EnumeratedImages :
              DrawnDirectly(image)
                  \/ image \in FixedOriginals \cup Recorded(stats.corruptedFiles)
                                  \cup Recorded(stats.errorDetails)
        /\ \A k \in 1..Len(stats.fixedFiles) : stats.fixedFiles[k].reason # ""
        /\ \A k \in 1..Len(stats.corruptedFiles) : stats.corruptedFiles[k].reason # <<>>
        /\ \A k \in 1..Len(stats.errorDetails) : stats.errorDetails[k].error.message # ""

----------------------------------------------------------------------------
(* The pass-through answer of the repair engine.                           *)

\* the repair answered { success: true, fixedPath: null }
PassedThrough(result) == result.success /\ result.fixedPath = NoPath

DocImageCalls(log) == {k \in 1..Len(log) : log[k].op = "doc.image"}

(* C25: when direct composition of a validated image raised and the repair *)
(* engine answers pass-through (success with no fixed path), createMangaPDF *)
(* performs no retry: skippedImages is incremented, an errorDetails entry   *)
(* with the original composition error is added, an error placeholder page *)
(* is appended, and the image is not counted as successful or fixed.       *)
C25_PassThroughIsSkippedNotRetried ==
    [][(pc = "repaired" /\ PassedThrough(cur.pre)) =>
          /\ cur.tiers = <<<<"normalize", "pass">>>>
          /\ DocImageCalls(calls') = DocImageCalls(calls)
          /\ stats'.skippedImages = stats.skippedImages + 1
          /\ stats'.errorDetails =
                Append(stats.errorDetails,
                       [file |-> ImagePath, chapter |-> chapters[ci],
                        error |-> [prefix |-> "", message |-> "Unknown image format."]])
          /\ stats'.successfulImages = stats.successfulImages
          /\ stats'.fixedImages = stats.fixedImages
          /\ stats'.fixedFiles = stats.fixedFiles
          /\ stats'.corruptedFiles = stats.corruptedFiles
          /\ Len(doc'.pages) = Len(doc.pages) + 1
          /\ SubSeq(doc'.pages, 1, Len(doc.pages)) = doc.pages
          /\ LET page == doc'.pages[Len(doc'.pages)]
             IN  /\ page.image = ImagePath
                 /\ page.height = 600
                 /\ page.drawn = NoPath
                 /\ page.text.label = "Failed to load: "
                 /\ page.text.file = ImagePath[2]]_vars

\* a first run has finished with an image whose direct composition raised,
\* whose repair answered pass-through, and which is recorded as skipped with
\* the composition error and not as fixed
C25_Witness ==
    /\ Finished
    /\ replay.run = 1
    /\ \E image \in DOMAIN replay.fate :
          /\ ~replay.fate[image].ok
          /\ PassedThrough(replay.fate[image].pre)
          /\ \E k \in 1..Len(stats.errorDetails) :
                /\ stats.errorDetails[k].file = image
                /\ stats.errorDetails[k].error.message = "Unknown image format."
          /\ image \notin FixedOriginals
          /\ stats.successfulImages = 0

----------------------------------------------------------------------------
(* scrapeManga over a fixed site: every chapter page carries one 'next'    *)
(* link (or none), the same at every visit.  crawl.graph[u] is the URL the *)
(* next link of page u points to, NoUrl when the page has none; loading a  *)
(* page may still fail.                                                    *)

ChapterUrls == 1..MaxChapters

ChapterGraphs == [ChapterUrls -> {NoUrl} \cup ChapterUrls]

InitGraph ==
    /\ AssemblerIdle
    /\ server = NoServer
    /\ crawl \in {[pc |-> "loop", currentUrl |-> StartUrl, errorCount |-> 0,
                   chaptersDownloaded |-> 0, attempts |-> <<>>, graph |-> g] :
                     g \in ChapterGraphs}

\* scrapeChapter returns the href of the page's next link
FollowLink == ScrapeSucceeds(crawl.graph[crawl.currentUrl])

NextGraph == FollowLink \/ ScrapeFails \/ CloseBrowser

SpecGraph == InitGraph /\ [][NextGraph]_vars

(* C26: on every finite graph of chapter pages and next links scrapeManga  *)
(* never scrapes the same chapter URL successfully twice (and so makes at  *)
(* most one successful scrape per page before it terminates), cycles of    *)
(* length two or more included.                                            *)
C26_NoChapterScrapedTwice ==
    \A a, b \in 1..Len(Attempts) :
        (a # b /\ Attempts[a].ok /\ Attempts[b].ok) => Attempts[a].url # Attempts[b].url

====
